---------------------------- MODULE Spec2Model ----------------------------
(***************************************************************************)
(* A model of the food-analysis backend (src/backend/food_analyzer):       *)
(*   - the per-date SystemStatistics aggregate and its two writers,        *)
(*     AnalyzeFoodView._update_system_statistics and                       *)
(*     FeedbackView._update_statistics_from_feedback (SpecStats);          *)
(*   - the LearningCache table, its writer                                 *)
(*     UserFeedbackSerializer._update_learning_cache (SpecLearn) and its   *)
(*     reader AnalyzeFoodView._apply_learning_corrections (SpecLookup);    *)
(*   - the nutrition resolver EnhancedNutritionAPI (SpecNutri);            *)
(*   - the ensemble aggregator EnhancedFoodDetector (SpecEnsemble);        *)
(*   - the two endpoints AnalyzeFoodView.post and FeedbackView.post, end   *)
(*     to end (SpecView).                                                  *)
(*                                                                         *)
(* Each request handler runs in its own worker; the database statements    *)
(* of one handler (SELECT, INSERT, UPDATE) are the atomic steps, and the   *)
(* Python code between two statements works on the handler's own copy of   *)
(* the row.  A confidence is an integer number of hundredths of a percent  *)
(* (7000 is 70%), a factor is in hundredths (115 is 1.15), a mean is kept  *)
(* as an exact fraction <<numerator, denominator>>, and a string on which  *)
(* the code computes (lower, strip, title, replace, in) is a tuple of      *)
(* characters.                                                             *)
(***************************************************************************)
EXTENDS Integers, Sequences, FiniteSets, TLC

VARIABLES
    \* --- SystemStatistics (models.py 134-196) ---
    stats,          \* the table: a sequence of rows, the index is the primary key
    sproc,          \* one statistics writer per worker: position and local copy
    today,          \* timezone.now().date(), as a day number
    opsStarted,     \* how many statistics operations were started
    nPredDone,      \* history: record_prediction calls made
    nFbDone,        \* history: record_feedback calls made with a counted type
    \* --- LearningCache (models.py 199-226) ---
    learning,       \* the table: a set of rows
    lproc,          \* one learning-cache writer per worker
    clock,          \* timezone.now() as auto_now reads it: it ticks at every write
    submitted,      \* history: per pair, the confidences submitted so far
    lookupOut,      \* the last result of _apply_learning_corrections
    \* --- EnhancedNutritionAPI (enhanced_nutrition_api.py) ---
    usda_api_key,   \* whether USDA_API_KEY is configured
    scraping_cache, \* self.scraping_cache of a resolver instance
    now,            \* datetime.now(), in ticks
    res,            \* history: the last resolution
    \* --- EnhancedFoodDetector (enhanced_food_detector.py) ---
    all_predictions, \* the flat list get_model_predictions returned
    nModels,         \* len(self.models)
    ensemble,        \* what ensemble_prediction returned for it
    detection,       \* what detect_food returned for it
    \* --- AnalyzeFoodView / FeedbackView ---
    analyses,       \* the FoodAnalysis table
    feedbacks,      \* the UserFeedback table
    food_database,  \* the FoodDatabase table: search_count by food_name
    responses,      \* history: the last request and response of FeedbackView.post
    analyzed        \* history: the last request and response of AnalyzeFoodView.post

statsVars == <<stats, sproc, today, opsStarted, nPredDone, nFbDone>>
learnVars == <<learning, lproc, clock, submitted, lookupOut>>
nutriVars == <<usda_api_key, scraping_cache, now, res>>
ensVars   == <<all_predictions, nModels, ensemble, detection>>
viewVars  == <<analyses, feedbacks, food_database, responses, analyzed>>
vars == <<statsVars, learnVars, nutriVars, ensVars, viewVars>>

-----------------------------------------------------------------------------
(* Bounds of the model *)

NProcs == 2         \* concurrent workers
MaxOps == 2         \* statistics operations started in one behaviour
MaxDay == 2         \* calendar days covered

Procs == 1..NProcs

-----------------------------------------------------------------------------
(* Small helpers *)

Max2(a, b) == IF a >= b THEN a ELSE b
Min2(a, b) == IF a <= b THEN a ELSE b

RECURSIVE Gcd(_, _)
Gcd(a, b) == IF b = 0 THEN a ELSE Gcd(b, a % b)

\* The fraction n/d in lowest terms.
Frac(n, d) == LET g == Gcd(n, d) IN IF g = 0 THEN <<0, 1>> ELSE <<n \div g, d \div g>>

-----------------------------------------------------------------------------
(* Python's str methods, on tuples of characters *)

LowerAlphabet == <<"a","b","c","d","e","f","g","h","i","j","k","l","m",
                   "n","o","p","q","r","s","t","u","v","w","x","y","z">>
UpperAlphabet == <<"A","B","C","D","E","F","G","H","I","J","K","L","M",
                   "N","O","P","Q","R","S","T","U","V","W","X","Y","Z">>
Whitespace == {" ", "\t", "\n"}

IsUpper(c) == \E i \in DOMAIN UpperAlphabet : UpperAlphabet[i] = c
IsLower(c) == \E i \in DOMAIN LowerAlphabet : LowerAlphabet[i] = c
IsCased(c) == IsUpper(c) \/ IsLower(c)
LowerChar(c) ==
    IF IsUpper(c)
    THEN LowerAlphabet[CHOOSE i \in DOMAIN UpperAlphabet : UpperAlphabet[i] = c]
    ELSE c
UpperChar(c) ==
    IF IsLower(c)
    THEN UpperAlphabet[CHOOSE i \in DOMAIN LowerAlphabet : LowerAlphabet[i] = c]
    ELSE c

\* str.lower()
Lower(s) == [i \in DOMAIN s |-> LowerChar(s[i])]

RECURSIVE LStrip(_)
LStrip(s) == IF s # <<>> /\ Head(s) \in Whitespace THEN LStrip(Tail(s)) ELSE s
RECURSIVE RStrip(_)
RStrip(s) == IF s # <<>> /\ s[Len(s)] \in Whitespace
             THEN RStrip(SubSeq(s, 1, Len(s) - 1)) ELSE s
\* str.strip()
Strip(s) == RStrip(LStrip(s))

\* str.title(): a cased character is upper-cased after an uncased one (or
\* at the start) and lower-cased after a cased one.
Title(s) == [i \in DOMAIN s |->
               IF i = 1 \/ ~IsCased(s[i - 1]) THEN UpperChar(s[i]) ELSE LowerChar(s[i])]

\* str.replace('_', ' ')
ReplaceUnderscore(s) == [i \in DOMAIN s |-> IF s[i] = "_" THEN " " ELSE s[i]]

\* sub in s, for Python strings
Contains(s, sub) ==
    \E i \in 0..(Len(s) - Len(sub)) : SubSeq(s, i + 1, i + Len(sub)) = sub

-----------------------------------------------------------------------------
(***************************************************************************)
(* SystemStatistics                                                        *)
(***************************************************************************)

\* Inputs: confidences around the tier boundaries, the source tags a
\* nutrition record can carry, the feedback types of UserFeedback.
Confidences == {5900, 6000, 7900, 8000}
DataSources == {"usda", "fallback"}
FEEDBACK_TYPES == {"perfect", "close", "wrong", "correction", "confirmation"}

\* A fresh row: the model's field defaults and get_or_create's defaults.
NewStatsRow(d) ==
    [ date |-> d,
      total_predictions |-> 0, correct_predictions |-> 0,
      accuracy_rate |-> <<0, 1>>,
      high_confidence_predictions |-> 0, high_confidence_correct |-> 0,
      medium_confidence_predictions |-> 0, medium_confidence_correct |-> 0,
      low_confidence_predictions |-> 0, low_confidence_correct |-> 0,
      total_corrections |-> 0, total_confirmations |-> 0,
      total_nutrition_searches |-> 0, successful_nutrition_searches |-> 0 ]

\* The confidence tier (views.py 201-206, 385-390, 295-302).
ConfidenceLevel(confidence) ==
    IF confidence >= 8000 THEN "high"
    ELSE IF confidence >= 6000 THEN "medium"
    ELSE "low"

\* stats.accuracy_rate = (correct / total) * 100, kept as the fraction
\* <<correct * 100, total>>; left alone when total_predictions is 0.
RecomputeAccuracy(r) ==
    IF r.total_predictions > 0
    THEN [r EXCEPT !.accuracy_rate = <<r.correct_predictions * 100, r.total_predictions>>]
    ELSE r

\* ApplyPrediction with the medium tier forgotten (the elif of line 203
\* dropped): a prediction at 60..79 is counted in no tier.
ApplyPredictionNoMedium(r, confidence, data_source) ==
    LET r1 == [r EXCEPT !.total_predictions = @ + 1]
        r2 == IF confidence >= 8000
              THEN [r1 EXCEPT !.high_confidence_predictions = @ + 1]
              ELSE IF confidence >= 6000
              THEN r1
              ELSE [r1 EXCEPT !.low_confidence_predictions = @ + 1]
    IN  [r2 EXCEPT !.total_nutrition_searches = @ + 1]

\* Lines 198-224 of _update_system_statistics on the local copy r.
\* (average_processing_time, a float that feeds only itself, is left out.)
ApplyPrediction(r, confidence, data_source) ==
    LET lvl == ConfidenceLevel(confidence)
        r1 == [r EXCEPT !.total_predictions = @ + 1]
        r2 == IF lvl = "high"
              THEN [r1 EXCEPT !.high_confidence_predictions = @ + 1]
              ELSE IF lvl = "medium"
              THEN [r1 EXCEPT !.medium_confidence_predictions = @ + 1]
              ELSE [r1 EXCEPT !.low_confidence_predictions = @ + 1]
        r3 == [r2 EXCEPT !.total_nutrition_searches = @ + 1]
        r4 == IF data_source \notin {"default_fallback", "mock_data"}
              THEN [r3 EXCEPT !.successful_nutrition_searches = @ + 1]
              ELSE r3
    IN  RecomputeAccuracy(r4)

\* ApplyFeedback with > for >= at line 385: a confirmation at exactly 80
\* is counted in the medium tier.
ApplyFeedbackAbove80(r, feedback_type, original_confidence) ==
    LET r1 == IF feedback_type \in {"perfect", "confirmation"}
              THEN LET a == [r EXCEPT !.correct_predictions = @ + 1,
                                      !.total_confirmations = @ + 1]
                   IN  IF original_confidence > 8000
                       THEN [a EXCEPT !.high_confidence_correct = @ + 1]
                       ELSE IF original_confidence >= 6000
                       THEN [a EXCEPT !.medium_confidence_correct = @ + 1]
                       ELSE [a EXCEPT !.low_confidence_correct = @ + 1]
              ELSE IF feedback_type \in {"correction", "wrong"}
              THEN [r EXCEPT !.total_corrections = @ + 1]
              ELSE r
    IN  RecomputeAccuracy(r1)

\* Lines 378-398 of _update_statistics_from_feedback on the local copy r.
ApplyFeedback(r, feedback_type, original_confidence) ==
    LET lvl == ConfidenceLevel(original_confidence)
        r1 == IF feedback_type \in {"perfect", "confirmation"}
              THEN LET a == [r EXCEPT !.correct_predictions = @ + 1,
                                      !.total_confirmations = @ + 1]
                   IN  IF lvl = "high"
                       THEN [a EXCEPT !.high_confidence_correct = @ + 1]
                       ELSE IF lvl = "medium"
                       THEN [a EXCEPT !.medium_confidence_correct = @ + 1]
                       ELSE [a EXCEPT !.low_confidence_correct = @ + 1]
              ELSE IF feedback_type \in {"correction", "wrong"}
              THEN [r EXCEPT !.total_corrections = @ + 1]
              ELSE r
    IN  RecomputeAccuracy(r1)

\* A worker that is not inside a statistics update.
IdleStats == [pc |-> "idle", op |-> "none", row |-> 0, local |-> NewStatsRow(0)]

\* The rows SystemStatistics.objects.get(date=d) matches.
RowsOfDate(d) == {i \in DOMAIN stats : stats[i].date = d}

\* The feedback types that count as a confirmation or a correction.
CountedFeedback(t) == t \in {"perfect", "confirmation", "correction", "wrong"}

\* Workers are interchangeable: a new request takes the first free one.
FreeStatsWorker(p) ==
    /\ sproc[p].pc = "idle"
    /\ \A q \in Procs : q < p => sproc[q].pc # "idle"

\* What a handler does to its copy r of the row between get_or_create and
\* save(): tag is the data source of a prediction, the type of a feedback.
Applied(op, r, confidence, tag) ==
    IF op = "prediction"
    THEN ApplyPrediction(r, confidence, tag)
    ELSE ApplyFeedback(r, tag, confidence)

\* get_or_create, first statement: SELECT ... WHERE date = today.
\* One row: the handler works on a copy of it.  No row: it goes on to
\* INSERT a row of defaults.  Several rows: MultipleObjectsReturned, caught
\* by the handler's except clause (views.py 228-229, 402-403), which only
\* logs.  The Python code between the statements (Applied) touches the
\* handler's copy alone, so it is folded into this step; the copy's date
\* is never read again (save() overwrites it), so it is not kept.  A row
\* that get_or_create inserts is returned with the defaults.
GetOrCreateGet(p, op, confidence, tag) ==
    /\ FreeStatsWorker(p)
    /\ opsStarted < MaxOps
    /\ opsStarted' = opsStarted + 1
    /\ LET m == RowsOfDate(today)
       IN  IF Cardinality(m) = 1
           THEN LET i == CHOOSE i \in m : TRUE
                IN  sproc' = [sproc EXCEPT ![p] =
                        [pc |-> "save", op |-> op, row |-> i, local |-> [Applied(op, stats[i], confidence, tag) EXCEPT !.date = 0]]]
           ELSE IF m = {}
           THEN sproc' = [sproc EXCEPT ![p] =
                        [pc |-> "create", op |-> op, row |-> 0,
                         local |-> Applied(op, NewStatsRow(0), confidence, tag)]]
           ELSE sproc' = [sproc EXCEPT ![p] = IdleStats]
    /\ UNCHANGED <<stats, today>>

\* _update_system_statistics(confidence, processing_time, data_source),
\* lines 188-224.
RecordPredictionGet(p) ==
    /\ \E c \in Confidences, s \in DataSources :
          GetOrCreateGet(p, "prediction", c, s)
    /\ nPredDone' = nPredDone + 1
    /\ UNCHANGED <<nFbDone, learnVars, nutriVars, ensVars, viewVars>>

\* _update_statistics_from_feedback(feedback), lines 372-398.
RecordFeedbackGet(p) ==
    /\ \E t \in FEEDBACK_TYPES, c \in Confidences :
          /\ GetOrCreateGet(p, "feedback", c, t)
          /\ nFbDone' = IF CountedFeedback(t) THEN nFbDone + 1 ELSE nFbDone
    /\ UNCHANGED <<nPredDone, learnVars, nutriVars, ensVars, viewVars>>

\* get_or_create, second statement: INSERT.  SystemStatistics.date carries
\* no unique constraint, so the INSERT succeeds whatever the table holds;
\* auto_now stamps the row with the day of the INSERT.
GetOrCreateCreate(p) ==
    /\ sproc[p].pc = "create"
    /\ stats' = Append(stats, NewStatsRow(today))
    /\ sproc' = [sproc EXCEPT ![p] = [@ EXCEPT !.pc = "save", !.row = Len(stats) + 1]]
    /\ UNCHANGED <<today, opsStarted, nPredDone, nFbDone>>
    /\ UNCHANGED <<learnVars, nutriVars, ensVars, viewVars>>

\* stats.save(): UPDATE of every field of the row from the local copy;
\* auto_now sets date to the day of the save.
SaveRow(p) ==
    /\ sproc[p].pc = "save"
    /\ stats' = [stats EXCEPT ![sproc[p].row] = [sproc[p].local EXCEPT !.date = today]]
    /\ sproc' = [sproc EXCEPT ![p] = IdleStats]
    /\ UNCHANGED <<today, opsStarted, nPredDone, nFbDone>>
    /\ UNCHANGED <<learnVars, nutriVars, ensVars, viewVars>>

\* _update_system_statistics, line 226.
RecordPredictionSave(p) == sproc[p].op = "prediction" /\ SaveRow(p)

\* _update_statistics_from_feedback, line 400.
RecordFeedbackSave(p) == sproc[p].op = "feedback" /\ SaveRow(p)

\* Midnight passes.
NextDay ==
    /\ today < MaxDay
    /\ today' = today + 1
    /\ UNCHANGED <<stats, sproc, opsStarted, nPredDone, nFbDone>>
    /\ UNCHANGED <<learnVars, nutriVars, ensVars, viewVars>>

-----------------------------------------------------------------------------
(***************************************************************************)
(* LearningCache: _update_learning_cache (serializers.py 97-124)           *)
(***************************************************************************)

MaxCorrections == 4     \* corrective feedbacks submitted in one behaviour

\* Food names as the callers pass them: predicted_food is the stored
\* food_name of an analysis, correct_food is what the user typed.
Hamburger         == <<"H","a","m","b","u","r","g","e","r">>
PizzaName         == <<"P","i","z","z","a">>
TacoName          == <<"T","a","c","o">>
hamburger         == <<"h","a","m","b","u","r","g","e","r">>
pizza             == <<"p","i","z","z","a">>
cheeseburger      == <<"c","h","e","e","s","e","b","u","r","g","e","r">>
CheeseburgerSp    == <<"C","h","e","e","s","e","b","u","r","g","e","r"," ">>
Cheeseburger      == <<"C","h","e","e","s","e","b","u","r","g","e","r">>
hot_dog_sp        == <<"h","o","t"," ","d","o","g">>
HotDogTitle       == <<"H","o","t"," ","D","o","g">>
UnknownFoodItem   ==
    <<"U","n","k","n","o","w","n"," ","F","o","o","d"," ","I","t","e","m">>
HamburgerSp       == <<" ","h","a","m","b","u","r","g","e","r">>
NoFood            == <<"None">>    \* Python's None (correct_food is nullable)

PredictedInputs == {Hamburger}
CorrectInputs == {cheeseburger, CheeseburgerSp, hot_dog_sp}
CorrectionConfidences == {6000, 7500}

\* The key of a correction: both names lower-cased, then stripped
\* (serializers.py 103-104).
NormalizeFood(name) == Strip(Lower(name))
LearnPairs == {<<NormalizeFood(a), NormalizeFood(b)>> :
                   a \in PredictedInputs, b \in CorrectInputs}

\* LearningCache.confidence_boost's default (models.py 209).
DefaultBoost == 115

\* The row get_or_create inserts (serializers.py 102-109).
NewLearningRow(pred, corr, confidence, t) ==
    [ predicted_food |-> pred, correct_food |-> corr,
      occurrence_count |-> 1, confidence_boost |-> DefaultBoost,
      average_original_confidence |-> <<confidence, 1>>, last_seen |-> t ]

\* UpdatedEntry with the old mean weighted by the count after the increment
\* instead of the count before it.
UpdatedEntryWrongWeight(row, confidence) ==
    LET n == row.occurrence_count + 1
        a == row.average_original_confidence
    IN  [row EXCEPT !.occurrence_count = n,
                    !.average_original_confidence =
                        Frac(a[1] * n + confidence * a[2], a[2] * n)]

\* Lines 113-117: occurrence_count += 1, then
\* average = (average * (occurrence_count - 1) + original_confidence) / occurrence_count.
UpdatedEntry(row, confidence) ==
    LET n == row.occurrence_count + 1
        a == row.average_original_confidence
    IN  [row EXCEPT !.occurrence_count = n,
                    !.average_original_confidence =
                        Frac(a[1] * (n - 1) + confidence * a[2], a[2] * n)]

\* The rows of table t for a pair (unique_together: at most one).
RowsOfPair(t, pred, corr) ==
    {e \in t : e.predicted_food = pred /\ e.correct_food = corr}

IdleLearn == [pc |-> "idle", predicted_food |-> <<>>, correct_food |-> <<>>,
              confidence |-> 0, local |-> <<>>]

FreeLearnWorker(p) ==
    /\ lproc[p].pc = "idle"
    /\ \A q \in Procs : q < p => lproc[q].pc # "idle"

InFlight(pred, corr) ==
    \E q \in Procs : /\ lproc[q].pc # "idle"
                     /\ lproc[q].predicted_food = pred
                     /\ lproc[q].correct_food = corr

NoSubmission == [k |-> 0, sum |-> 0, overlapped |-> FALSE]

RECURSIVE CorrectionsIn(_)
\* The corrections submitted for the pairs of S.
CorrectionsIn(S) ==
    IF S = {} THEN 0
    ELSE LET pr == CHOOSE x \in S : TRUE
         IN  submitted[pr].k + CorrectionsIn(S \ {pr})

\* get_or_create, first statement (SELECT by the normalized pair).  A row
\* found is copied and updated locally (lines 111-117); none found, the
\* handler goes on to INSERT.
UpdateLearningCacheGet(p) ==
    /\ FreeLearnWorker(p)
    /\ CorrectionsIn(LearnPairs) < MaxCorrections
    /\ \E a \in PredictedInputs, b \in CorrectInputs, c \in CorrectionConfidences :
         LET pred == NormalizeFood(a)
             corr == NormalizeFood(b)
             rows == RowsOfPair(learning, pred, corr)
             h == submitted[<<pred, corr>>]
         IN  /\ submitted' = [submitted EXCEPT ![<<pred, corr>>] =
                    [k |-> h.k + 1, sum |-> h.sum + c,
                     overlapped |-> h.overlapped \/ InFlight(pred, corr)]]
             /\ lproc' = [lproc EXCEPT ![p] =
                    IF rows # {}
                    THEN [pc |-> "save", predicted_food |-> pred, correct_food |-> corr,
                          confidence |-> c,
                          local |-> UpdatedEntry(CHOOSE e \in rows : TRUE, c)]
                    ELSE [pc |-> "create", predicted_food |-> pred, correct_food |-> corr,
                          confidence |-> c, local |-> <<>>]]
    /\ UNCHANGED <<learning, clock, lookupOut>>
    /\ UNCHANGED <<statsVars, nutriVars, ensVars, viewVars>>

\* get_or_create, second statement (INSERT).  unique_together rejects it
\* when the pair has been inserted meanwhile; get_or_create then returns
\* the existing row with created = False and the handler updates that.
UpdateLearningCacheCreate(p) ==
    /\ lproc[p].pc = "create"
    /\ LET me == lproc[p]
           rows == RowsOfPair(learning, me.predicted_food, me.correct_food)
       IN  IF rows = {}
           THEN /\ learning' = learning \cup
                      {NewLearningRow(me.predicted_food, me.correct_food,
                                      me.confidence, clock + 1)}
                /\ clock' = clock + 1
                /\ lproc' = [lproc EXCEPT ![p] = IdleLearn]
           ELSE /\ UNCHANGED <<learning, clock>>
                /\ lproc' = [lproc EXCEPT ![p] =
                      [me EXCEPT !.pc = "save",
                                 !.local = UpdatedEntry(CHOOSE e \in rows : TRUE,
                                                        me.confidence)]]
    /\ UNCHANGED <<submitted, lookupOut>>
    /\ UNCHANGED <<statsVars, nutriVars, ensVars, viewVars>>

\* cache_entry.save() (line 118): UPDATE of every field from the local
\* copy; auto_now stamps last_seen.
UpdateLearningCacheSave(p) ==
    /\ lproc[p].pc = "save"
    /\ LET me == lproc[p]
       IN  learning' = (learning \ RowsOfPair(learning, me.predicted_food, me.correct_food))
                          \cup {[me.local EXCEPT !.last_seen = clock + 1]}
    /\ clock' = clock + 1
    /\ lproc' = [lproc EXCEPT ![p] = IdleLearn]
    /\ UNCHANGED <<submitted, lookupOut>>
    /\ UNCHANGED <<statsVars, nutriVars, ensVars, viewVars>>

-----------------------------------------------------------------------------
(***************************************************************************)
(* LearningCache: _apply_learning_corrections (views.py 160-183)           *)
(***************************************************************************)

MaxCount == 2           \* occurrence_count of a stored entry
MaxSeen == 2            \* distinct last_seen stamps of stored entries

\* The pairs, the boosts (the admin form edits confidence_boost) and the
\* inputs of the lookups.
LookupPairs == { <<hamburger, cheeseburger>>, <<hamburger, hot_dog_sp>> }
Boosts == {50, 100, DefaultBoost, 150}
LookupNames == {Hamburger, HamburgerSp, PizzaName, TacoName}
LookupConfidences == {0, 7000, 9000, 10000}

\* The cap of line 173 (95.0%).
BoostCap == 9500

\* BoostedConfidence without the cap.
BoostedConfidenceUncapped(confidence, boost) == (confidence * boost) \div 100

\* BoostedConfidence with the cap at 80%.
BoostedConfidenceCap80(confidence, boost) ==
    Min2((confidence * boost) \div 100, 8000)

\* Line 173: min(confidence * best_correction.confidence_boost, 95.0).
BoostedConfidence(confidence, boost) ==
    Min2((confidence * boost) \div 100, BoostCap)

\* OrderedBefore sorting by last_seen alone.
OrderedBeforeBySeenOnly(e, f) == e.last_seen >= f.last_seen

\* order_by('-occurrence_count', '-last_seen') (line 166): e may stand
\* before f.
OrderedBefore(e, f) ==
    \/ e.occurrence_count > f.occurrence_count
    \/ e.occurrence_count = f.occurrence_count /\ e.last_seen >= f.last_seen

\* The rows .first() may return: rows equal in both keys come in the
\* order the database happens to give them.
FirstOf(entries) == {e \in entries : \A f \in entries : OrderedBefore(e, f)}

\* LearningCorrections with the correction applied although the query
\* raised.
LearningCorrectionsDespiteError(table, food_name, confidence, dbError) ==
    LET cache_entries == {e \in table : e.predicted_food = Strip(Lower(food_name))}
        unchanged == [food_name |-> food_name, confidence |-> confidence,
                      dbError |-> dbError, found |-> FALSE,
                      out_name |-> food_name, out_confidence |-> confidence]
    IN  IF cache_entries = {}
        THEN {unchanged}
        ELSE { [unchanged EXCEPT
                  !.found = TRUE,
                  !.out_name = Title(best_correction.correct_food),
                  !.out_confidence =
                      BoostedConfidence(confidence, best_correction.confidence_boost)]
               : best_correction \in FirstOf(cache_entries) }

\* The results _apply_learning_corrections can return.  A query that raises
\* (dbError) is caught at line 180 and the input comes back unchanged.
LearningCorrections(table, food_name, confidence, dbError) ==
    LET cache_entries == {e \in table : e.predicted_food = Strip(Lower(food_name))}
        unchanged == [food_name |-> food_name, confidence |-> confidence,
                      dbError |-> dbError, found |-> FALSE,
                      out_name |-> food_name, out_confidence |-> confidence]
    IN  IF dbError \/ cache_entries = {}
        THEN {unchanged}
        ELSE { [unchanged EXCEPT
                  !.found = TRUE,
                  !.out_name = Title(best_correction.correct_food),
                  !.out_confidence =
                      BoostedConfidence(confidence, best_correction.confidence_boost)]
               : best_correction \in FirstOf(cache_entries) }

NoLookup == [found |-> FALSE, dbError |-> FALSE, food_name |-> <<>>, confidence |-> 0,
             out_name |-> <<>>, out_confidence |-> 0, called |-> FALSE]

\* One call of _apply_learning_corrections (it only reads the table, so
\* one call per table shows all it does).
ApplyLearningCorrections ==
    /\ ~lookupOut.called
    /\ \E food_name \in LookupNames, confidence \in LookupConfidences, dbError \in BOOLEAN :
         \E r \in LearningCorrections(learning, food_name, confidence, dbError) :
            lookupOut' = [found |-> r.found, dbError |-> r.dbError,
                          food_name |-> r.food_name, confidence |-> r.confidence,
                          out_name |-> r.out_name, out_confidence |-> r.out_confidence,
                          called |-> TRUE]
    /\ UNCHANGED <<learning, lproc, clock, submitted>>
    /\ UNCHANGED <<statsVars, nutriVars, ensVars, viewVars>>

-----------------------------------------------------------------------------
(***************************************************************************)
(* EnhancedNutritionAPI (utils/enhanced_nutrition_api.py)                  *)
(*                                                                         *)
(* A nutrition record is a Python dict, here a function from its keys; an  *)
(* amount is in tenths of its unit (2660 is 266 kcal).  The resolver       *)
(* object whose scraping_cache the model keeps is one that its caller      *)
(* reuses; AnalyzeFoodView builds its own resolver in __init__, and        *)
(* as_view() builds the view anew for every request.                       *)
(***************************************************************************)

MaxTime == 2            \* ticks of the wall clock covered
HoursPerTick == 84      \* length of one tick (3.5 days)

\* Sources with OpenFoodFacts before USDA.
SourcesReordered == <<"openfoodfacts", "usda", "google">>

\* The sources list of lines 256-260.
Sources == <<"usda", "openfoodfacts", "google">>

\* The labels resolved.
NutriLabels == {PizzaName, TacoName}

\* None.
NoRecord == [source |-> "none"]

Nutrients(calories, protein, fat, carbs, fiber, sugar, sodium) ==
    [calories |-> calories, protein |-> protein, fat |-> fat, carbs |-> carbs,
     fiber |-> fiber, sugar |-> sugar, sodium |-> sodium]

\* data['source'] = tag, on a copy.
Tagged(data, tag) ==
    [k \in DOMAIN data \cup {"source"} |-> IF k = "source" THEN tag ELSE data[k]]

\* nutrition_data.get('calories', 0) (line 265).
GetCalories(nutrition_data) ==
    IF "calories" \in DOMAIN nutrition_data THEN nutrition_data["calories"] ELSE 0

\* nutrient.get('amount', 0) of an energy nutrient whose amount is the
\* JSON null (line 99): None, which is no amount.
NullAmount == -1

\* What one external source answers in one resolution.  USDA: "error"
\* (timeout, exception, non-200 status, nothing found), "no_energy" (an
\* item without an energy value), "null_energy" (an item whose energy
\* amount is null) or "found".  OpenFoodFacts: "error" or "found".
\* Google: an error, or the set of macro fields the patterns matched.
MacroFields == {"calories", "protein", "carbs", "fat"}
UsdaResponses == {"error", "no_energy", "null_energy", "found"}
OffResponses == {"error", "found"}
GoogleMatches ==
    {{"calories"}, {"protein", "fat"}, {"calories", "protein"}}
GoogleResponses ==
    {[status |-> "error", matched |-> {}]}
        \cup {[status |-> "ok", matched |-> m] : m \in GoogleMatches}
SourceResponses ==
    [usda : UsdaResponses, openfoodfacts : OffResponses, google : GoogleResponses]

\* search_nutrition_usda (28-63) with _parse_usda_nutrition_data (83-116).
search_nutrition_usda(response) ==
    IF ~usda_api_key \/ response = "error" THEN NoRecord
    ELSE IF response = "no_energy"
         THEN Tagged(Nutrients(0, 120, 100, 300, 0, 0, 0), "usda")
    ELSE IF response = "null_energy"
         THEN Tagged(Nutrients(NullAmount, 120, 100, 300, 0, 0, 0), "usda")
         ELSE Tagged(Nutrients(2700, 120, 100, 300, 20, 30, 6000), "usda")

\* search_nutrition_openfoodfacts (118-178): a field the product lacks is
\* safe_float(None) = 0.
search_nutrition_openfoodfacts(response) ==
    IF response = "error" THEN NoRecord
    ELSE IF response = "no_energy"
         THEN Tagged(Nutrients(0, 110, 90, 310, 0, 0, 0), "openfoodfacts")
         ELSE Tagged(Nutrients(2600, 110, 90, 310, 20, 30, 4000), "openfoodfacts")

\* search_nutrition_google (180-235): the dict holds the matched fields
\* only; with at least 2 of them it gets fiber, sugar, sodium and source.
GoogleAmount(field) ==
    CASE field = "calories" -> 2500
      [] field = "protein" -> 100
      [] field = "carbs" -> 320
      [] field = "fat" -> 80
      [] OTHER -> 0
\* The web search accepted with a single matched field.
search_nutrition_google_one(response) ==
    IF response.status = "error" THEN NoRecord
    ELSE IF Cardinality(response.matched) >= 1
         THEN Tagged([k \in response.matched \cup {"fiber", "sugar", "sodium"} |->
                         GoogleAmount(k)],
                     "google_search")
         ELSE NoRecord

search_nutrition_google(response) ==
    IF response.status = "error" THEN NoRecord
    ELSE IF Cardinality(response.matched) >= 2
         THEN Tagged([k \in response.matched \cup {"fiber", "sugar", "sodium"} |->
                         GoogleAmount(k)],
                     "google_search")
         ELSE NoRecord

\* source_func(food_name) of line 264.
SourceResult(source_name, answers) ==
    CASE source_name = "usda" -> search_nutrition_usda(answers.usda)
      [] source_name = "openfoodfacts" ->
             search_nutrition_openfoodfacts(answers.openfoodfacts)
      [] source_name = "google" -> search_nutrition_google(answers.google)

\* Whether the source function sends a request (USDA returns at line 32
\* before any request when no key is configured).
SendsRequest(source_name) == source_name = "usda" => usda_api_key

\* The fields the web search matched, when it was asked and answered.
MatchedBy(source_name, answers) ==
    IF source_name = "google" /\ answers.google.status = "ok"
    THEN answers.google.matched ELSE {}

\* The comparison of line 265 raises TypeError: None > 0.
ComparisonRaises(nutrition_data) ==
    nutrition_data # NoRecord /\ GetCalories(nutrition_data) = NullAmount

\* Any record is accepted, whatever its calories.
AcceptedAnyRecord(nutrition_data) ==
    nutrition_data # NoRecord /\ ~ComparisonRaises(nutrition_data)

\* The condition of line 265, where it does not raise.
Accepted(nutrition_data) ==
    /\ nutrition_data # NoRecord
    /\ ~ComparisonRaises(nutrition_data)
    /\ GetCalories(nutrition_data) > 0

\* The answers one resolution can hear: a source that is not asked
\* (USDA without a key, a source after the accepted one) answers nothing,
\* which is written as its "error".
SourceAnswersWith ==
    [key \in BOOLEAN |->
      {answers \in SourceResponses :
        /\ ~key => answers.usda = "error"
        /\ Accepted(search_nutrition_usda(answers.usda)) =>
               answers.openfoodfacts = "error"
        /\ (\/ Accepted(search_nutrition_usda(answers.usda))
            \/ Accepted(search_nutrition_openfoodfacts(answers.openfoodfacts))) =>
               answers.google.status = "error"}]

SourceAnswers == SourceAnswersWith[usda_api_key]

\* The loop without its except clause: the first exception leaves it.
RECURSIVE TrySourcesNoExcept(_, _, _)
TrySourcesNoExcept(sources, answers, trace) ==
    IF sources = <<>> THEN [trace EXCEPT !.accepted = FALSE]
    ELSE LET source_name == Head(sources)
             nutrition_data == SourceResult(source_name, answers)
             raises == ComparisonRaises(nutrition_data)
             next == [attempts |-> Append(trace.attempts, source_name),
                      found |-> trace.found,
                      yields |-> Append(trace.yields, nutrition_data),
                      calls |-> trace.calls + (IF SendsRequest(source_name) THEN 1 ELSE 0),
                      matched |-> MatchedBy(source_name, answers),
                      caught |-> trace.caught,
                      surfaced |-> raises,
                      accepted |-> Accepted(nutrition_data)]
         IN  IF next.accepted \/ raises THEN next
             ELSE TrySourcesNoExcept(Tail(sources), answers, next)

\* The loop of lines 262-277 over the remaining sources; trace collects
\* the steps attempted, what each yielded, the requests sent, the fields
\* the web search matched, the exceptions caught at line 275 and whether
\* one left the loop.
RECURSIVE TrySources(_, _, _)
TrySources(sources, answers, trace) ==
    IF sources = <<>> THEN [trace EXCEPT !.accepted = FALSE]
    ELSE LET source_name == Head(sources)
             nutrition_data == SourceResult(source_name, answers)
             raises == ComparisonRaises(nutrition_data)
             next == [attempts |-> Append(trace.attempts, source_name),
                      found |-> trace.found,
                      yields |-> Append(trace.yields, nutrition_data),
                      calls |-> trace.calls + (IF SendsRequest(source_name) THEN 1 ELSE 0),
                      matched |-> MatchedBy(source_name, answers),
                      caught |-> trace.caught + (IF raises THEN 1 ELSE 0),
                      surfaced |-> FALSE,
                      accepted |-> Accepted(nutrition_data)]
         IN  IF next.accepted THEN next
             ELSE TrySources(Tail(sources), answers, next)

\* mock_data of lines 284-301, in the order of the dict.
mock_data == <<
    <<<<"p","i","z","z","a">>,
      Nutrients(2660, 110, 100, 330, 23, 36, 5980)>>,
    <<<<"h","a","m","b","u","r","g","e","r">>,
      Nutrients(2950, 170, 140, 280, 21, 40, 3960)>>,
    <<<<"b","u","r","g","e","r">>,
      Nutrients(2950, 170, 140, 280, 21, 40, 3960)>>,
    <<<<"s","u","s","h","i">>,
      Nutrients(2000, 90, 70, 280, 10, 20, 4000)>>,
    <<<<"c","h","o","c","o","l","a","t","e"," ","c","a","k","e">>,
      Nutrients(3710, 40, 160, 560, 30, 450, 3200)>>,
    <<<<"c","a","k","e">>,
      Nutrients(3710, 40, 160, 560, 30, 450, 3200)>>,
    <<<<"f","r","e","n","c","h"," ","f","r","i","e","s">>,
      Nutrients(3650, 40, 170, 480, 40, 3, 4000)>>,
    <<<<"f","r","i","e","s">>,
      Nutrients(3650, 40, 170, 480, 40, 3, 4000)>>,
    <<<<"c","h","i","c","k","e","n">>,
      Nutrients(2390, 270, 140, 0, 0, 0, 820)>>,
    <<<<"i","c","e"," ","c","r","e","a","m">>,
      Nutrients(2070, 40, 110, 240, 5, 210, 800)>>,
    <<<<"a","p","p","l","e">>,
      Nutrients(520, 3, 2, 140, 24, 104, 10)>>,
    <<<<"b","a","n","a","n","a">>,
      Nutrients(890, 11, 3, 230, 26, 122, 10)>>,
    <<<<"r","i","c","e">>,
      Nutrients(1300, 27, 3, 280, 4, 1, 50)>>,
    <<<<"b","r","e","a","d">>,
      Nutrients(2650, 90, 32, 490, 27, 57, 4910)>>,
    <<<<"p","a","s","t","a">>,
      Nutrients(1310, 50, 11, 250, 18, 8, 60)>>,
    <<<<"s","a","l","a","d">>,
      Nutrients(150, 14, 1, 30, 13, 15, 280)>> >>

\* The record of lines 320-329.
DefaultRecord == Tagged(Nutrients(2000, 100, 80, 250, 20, 50, 1000), "default_fallback")

\* The index of the table entry _get_mock_nutrition_data picks for a
\* cleaned name, 0 for none: the direct match (307), else the first key
\* that is part of the name or that the name is part of (313-314).
MockIndex(clean_name) ==
    LET direct == {i \in DOMAIN mock_data : mock_data[i][1] = clean_name}
        partial == {i \in DOMAIN mock_data :
                       \/ Contains(clean_name, mock_data[i][1])
                       \/ Contains(mock_data[i][1], clean_name)}
        Least(S) == CHOOSE i \in S : \A j \in S : i <= j
    IN  IF direct # {} THEN Least(direct)
        ELSE IF partial # {} THEN Least(partial)
        ELSE 0

\* The names a caller resolves: those above, and what AnalyzeFoodView.post
\* passes on when nothing is food or a learned correction was applied.
ResolvedLabels == NutriLabels \cup {UnknownFoodItem, Cheeseburger}

\* The entry picked for each label resolved (line 304 cleans the name).
MockIndexOf ==
    [food_name \in ResolvedLabels |->
        MockIndex(Strip(ReplaceUnderscore(Lower(food_name))))]

\* The cache key of each label resolved (line 239).
CleanNameOf == [food_name \in ResolvedLabels |-> Strip(Lower(food_name))]

\* _get_mock_nutrition_data (282-329), continuing a trace.
get_mock_nutrition_data(food_name, trace) ==
    LET i == MockIndexOf[food_name]
    IN  IF i # 0
        THEN [trace EXCEPT
                 !.attempts = Append(trace.attempts, "static"),
                 !.yields = Append(trace.yields, Tagged(mock_data[i][2], "mock_data")),
                 !.accepted = TRUE]
        ELSE [trace EXCEPT
                 !.attempts = trace.attempts \o <<"static", "default">>,
                 !.yields = trace.yields \o <<NoRecord, DefaultRecord>>,
                 !.accepted = TRUE]

\* timedelta.days of the age of a stamp, and the test of line 247.
DaysBetween(earlier, later) == ((later - earlier) * HoursPerTick) \div 24
AgeDays(timestamp) == DaysBetween(timestamp, now)
FreshDays == 7

\* An entry of exactly 7 days still counts as fresh.
IsFreshInclusive(cache_entry) == AgeDays(cache_entry.timestamp) <= FreshDays

IsFresh(cache_entry) == AgeDays(cache_entry.timestamp) < FreshDays

EmptyCache == [k \in {} |-> NoRecord]

\* get_comprehensive_nutrition (237-280) on a resolver holding cache:
\* the trace of the call and the cache it leaves.
get_comprehensive_nutrition(cache, food_name, answers) ==
    LET food_name_clean == CleanNameOf[food_name]
        hit == food_name_clean \in DOMAIN cache /\ IsFresh(cache[food_name_clean])
        start == [attempts |-> <<"cache">>,
                  found |-> IF hit THEN "fresh"
                            ELSE IF food_name_clean \in DOMAIN cache THEN "stale"
                            ELSE "none",
                  yields |-> <<IF hit THEN cache[food_name_clean].data ELSE NoRecord>>,
                  calls |-> 0, matched |-> {}, caught |-> 0,
                  surfaced |-> FALSE, accepted |-> hit]
        searched == TrySources(Sources, answers, start)
        trace == IF hit THEN start
                 ELSE IF searched.accepted \/ searched.surfaced THEN searched
                 ELSE get_mock_nutrition_data(food_name, searched)
        result == IF trace.surfaced THEN NoRecord
                  ELSE trace.yields[Len(trace.yields)]
    IN  [trace |-> trace,
         result |-> result,
         cache |-> IF ~hit /\ searched.accepted
                   THEN [k \in DOMAIN cache \cup {food_name_clean} |->
                           IF k = food_name_clean
                           THEN [data |-> result, timestamp |-> now]
                           ELSE cache[k]]
                   ELSE cache]

\* The last resolution made: its input, the time, whether the resolver
\* is one that lives on after the call, and the trace (found tells what
\* lines 242-247 saw in the cache: no entry, a stale one or a fresh one).
NoResolution ==
    [food_name |-> <<>>, at |-> 0, reused |-> FALSE, attempts |-> <<>>,
     found |-> "none",
     yields |-> <<>>, calls |-> 0, matched |-> {}, caught |-> 0,
     surfaced |-> FALSE, result |-> NoRecord]
Resolution(food_name, reused, r) ==
    [food_name |-> food_name, at |-> now, reused |-> reused,
     attempts |-> r.trace.attempts, found |-> r.trace.found,
     yields |-> r.trace.yields,
     calls |-> r.trace.calls, matched |-> r.trace.matched,
     caught |-> r.trace.caught, surfaced |-> r.trace.surfaced,
     result |-> r.result]

\* get_comprehensive_nutrition called on the reused resolver.
Resolve ==
    /\ \E food_name \in NutriLabels, answers \in SourceAnswers :
         LET r == get_comprehensive_nutrition(scraping_cache, food_name, answers)
         IN  /\ scraping_cache' = r.cache
             /\ res' = Resolution(food_name, TRUE, r)
    /\ UNCHANGED <<usda_api_key, now>>
    /\ UNCHANGED <<statsVars, learnVars, ensVars, viewVars>>

\* Line 85 of AnalyzeFoodView.post: the request's view was built by
\* as_view(), its resolver by __init__ (views.py 29-33) with an empty
\* scraping_cache (line 26), and both are dropped with the request.
AnalyzeResolve ==
    /\ \E food_name \in NutriLabels, answers \in SourceAnswers :
         LET r == get_comprehensive_nutrition(EmptyCache, food_name, answers)
         IN  res' = Resolution(food_name, FALSE, r)
    /\ UNCHANGED <<usda_api_key, scraping_cache, now>>
    /\ UNCHANGED <<statsVars, learnVars, ensVars, viewVars>>

\* datetime.now() moves on.
AdvanceTime ==
    /\ now < MaxTime
    /\ now' = now + 1
    /\ UNCHANGED <<usda_api_key, scraping_cache, res>>
    /\ UNCHANGED <<statsVars, learnVars, ensVars, viewVars>>

-----------------------------------------------------------------------------
(***************************************************************************)
(* EnhancedFoodDetector: ensemble_prediction, extract_food_predictions and *)
(* detect_food from the prediction list on                                 *)
(* (utils/enhanced_food_detector.py 192-288)                               *)
(*                                                                         *)
(* A raw confidence and a model weight are in hundredths (90 is 0.9, 33 is *)
(* 0.33), a weighted score in ten-thousandths, a final score an exact      *)
(* fraction of ten-thousandths.                                            *)
(***************************************************************************)

MaxPreds == 3           \* length of the prediction list

\* The models load_models can leave in self.models (lines 43-49).
NumModels == 3

\* Class names as decode_predictions gives them; the ImageNet labels
\* "Cardigan" (the corgi) and "cardigan" (the garment) are two classes.
hot_dog_us == <<"h","o","t","_","d","o","g">>
CardiganDog == <<"C","a","r","d","i","g","a","n">>
cardigan == <<"c","a","r","d","i","g","a","n">>
ClassNames == {pizza, cheeseburger, hot_dog_sp, hot_dog_us, CardiganDog, cardigan}
RawConfidences == {50, 60, 90}
\* 0.33 is the default of line 183, 0.4 the weight of resnet50 (line 34).
ModelWeights == {33, 40}

\* The predictions a list is made of: every class at every confidence with
\* the weight 0.33, and at the highest confidence with the weight 0.4; the
\* two cardigans at one confidence and weight.
Predictions ==
    {pred \in [class_name : ClassNames, confidence : RawConfidences,
               weight : ModelWeights] :
        /\ pred.weight = 40 => pred.confidence = 90
        /\ pred.class_name \in {CardiganDog, cardigan}
              => (pred.confidence = 60 /\ pred.weight = 33)}

\* FinalScore with an agreement bonus of up to 1.0.
FinalScoreBonusOne(total_score, count, models) ==
    Frac(total_score * models + 10000 * Min2(count, models) * count, count * models)

\* FinalScore adding the bonus to the total score.
FinalScoreOfTotal(total_score, count, models) ==
    Frac(total_score * models + 1000 * Min2(count, models), models)

\* Lines 222-224: total_score / count + min(count / len(models), 1.0) * 0.1.
FinalScore(total_score, count, models) ==
    Frac(total_score * models + 1000 * Min2(count, models) * count, count * models)

\* a >= b for fractions with positive denominators.
FracGeq(a, b) == a[1] * b[2] >= b[1] * a[2]

\* Lines 197-216: class_scores after the predictions preds, as the list of
\* its items in insertion order.
RECURSIVE ClassScores(_)
ClassScores(preds) ==
    IF preds = <<>> THEN <<>>
    ELSE LET before == ClassScores(SubSeq(preds, 1, Len(preds) - 1))
             pred == preds[Len(preds)]
             weighted_score == pred.confidence * pred.weight
             at == {i \in DOMAIN before : before[i].class_name = pred.class_name}
         IN  IF at # {}
             THEN [i \in DOMAIN before |->
                     IF i \in at
                     THEN [before[i] EXCEPT
                             !.total_score = @ + weighted_score,
                             !.count = @ + 1,
                             !.max_confidence = Max2(@, pred.confidence)]
                     ELSE before[i]]
             ELSE Append(before, [class_name |-> pred.class_name,
                                  total_score |-> weighted_score,
                                  count |-> 1,
                                  max_confidence |-> pred.confidence])

\* Lines 219-231.
FinalPredictions(class_scores, models) ==
    [i \in DOMAIN class_scores |->
        [class_name |-> class_scores[i].class_name,
         confidence |-> FinalScore(class_scores[i].total_score,
                                   class_scores[i].count, models),
         max_confidence |-> class_scores[i].max_confidence,
         model_agreement |-> class_scores[i].count]]

\* list.sort(key=confidence, reverse=True) (line 234): descending and
\* stable, equal keys keep the order they had.
RECURSIVE SortByConfidence(_)
SortByConfidence(list) ==
    IF list = <<>> THEN <<>>
    ELSE LET sorted == SortByConfidence(SubSeq(list, 1, Len(list) - 1))
             x == list[Len(list)]
             k == Cardinality({i \in DOMAIN sorted :
                                  FracGeq(sorted[i].confidence, x.confidence)})
         IN  SubSeq(sorted, 1, k) \o <<x>> \o SubSeq(sorted, k + 1, Len(sorted))

ensemble_prediction(preds, models) ==
    SortByConfidence(FinalPredictions(ClassScores(preds), models))

NotCalled == [called |-> FALSE, final_predictions |-> <<>>]

\* self.food_keywords (lines 66-106).
food_keywords ==
    {<<"a","p","p","l","e">>, <<"b","a","n","a","n","a">>,
     <<"o","r","a","n","g","e">>, <<"s","t","r","a","w","b","e","r","r","y">>,
     <<"g","r","a","p","e">>, <<"p","i","n","e","a","p","p","l","e">>,
     <<"m","a","n","g","o">>, <<"p","e","a","c","h">>, <<"p","e","a","r">>,
     <<"c","h","e","r","r","y">>, <<"b","l","u","e","b","e","r","r","y">>,
     <<"r","a","s","p","b","e","r","r","y">>,
     <<"w","a","t","e","r","m","e","l","o","n">>,
     <<"c","a","n","t","a","l","o","u","p","e">>, <<"k","i","w","i">>,
     <<"p","a","p","a","y","a">>, <<"c","o","c","o","n","u","t">>,
     <<"b","r","o","c","c","o","l","i">>, <<"c","a","r","r","o","t">>,
     <<"t","o","m","a","t","o">>, <<"p","o","t","a","t","o">>,
     <<"o","n","i","o","n">>, <<"p","e","p","p","e","r">>,
     <<"c","u","c","u","m","b","e","r">>, <<"l","e","t","t","u","c","e">>,
     <<"s","p","i","n","a","c","h">>, <<"c","a","b","b","a","g","e">>,
     <<"c","a","u","l","i","f","l","o","w","e","r">>,
     <<"z","u","c","c","h","i","n","i">>, <<"e","g","g","p","l","a","n","t">>,
     <<"a","s","p","a","r","a","g","u","s">>,
     <<"m","u","s","h","r","o","o","m">>, <<"c","o","r","n">>,
     <<"c","h","i","c","k","e","n">>, <<"b","e","e","f">>,
     <<"p","o","r","k">>, <<"f","i","s","h">>, <<"s","a","l","m","o","n">>,
     <<"t","u","n","a">>, <<"e","g","g">>, <<"t","o","f","u">>,
     <<"b","e","a","n","s">>, <<"l","e","n","t","i","l","s">>,
     <<"n","u","t","s">>, <<"c","h","e","e","s","e">>, <<"r","i","c","e">>,
     <<"p","a","s","t","a">>, <<"b","r","e","a","d">>,
     <<"n","o","o","d","l","e">>, <<"q","u","i","n","o","a">>,
     <<"o","a","t","s">>, <<"c","e","r","e","a","l">>,
     <<"b","a","g","e","l">>, <<"c","r","o","i","s","s","a","n","t">>,
     <<"m","u","f","f","i","n">>, <<"p","a","n","c","a","k","e">>,
     <<"w","a","f","f","l","e">>, <<"p","i","z","z","a">>,
     <<"b","u","r","g","e","r">>, <<"h","a","m","b","u","r","g","e","r">>,
     <<"c","h","e","e","s","e","b","u","r","g","e","r">>,
     <<"h","o","t","_","d","o","g">>,
     <<"f","r","e","n","c","h","_","f","r","i","e","s">>,
     <<"f","r","i","e","s">>, <<"s","a","n","d","w","i","c","h">>,
     <<"b","u","r","r","i","t","o">>, <<"t","a","c","o">>,
     <<"n","a","c","h","o","s">>, <<"w","i","n","g","s">>,
     <<"f","r","i","e","d","_","c","h","i","c","k","e","n">>,
     <<"i","c","e","_","c","r","e","a","m">>, <<"c","a","k","e">>,
     <<"c","o","o","k","i","e">>, <<"d","o","n","u","t">>,
     <<"c","h","o","c","o","l","a","t","e">>, <<"c","a","n","d","y">>,
     <<"p","i","e">>, <<"p","u","d","d","i","n","g">>,
     <<"b","r","o","w","n","i","e">>, <<"c","u","p","c","a","k","e">>,
     <<"c","o","f","f","e","e">>, <<"t","e","a">>, <<"s","o","d","a">>,
     <<"j","u","i","c","e">>, <<"m","i","l","k">>,
     <<"s","m","o","o","t","h","i","e">>, <<"s","u","s","h","i">>,
     <<"r","a","m","e","n">>, <<"c","u","r","r","y">>,
     <<"b","i","r","y","a","n","i">>, <<"d","o","s","a">>,
     <<"n","a","a","n">>, <<"d","i","m","_","s","u","m">>,
     <<"g","y","o","z","a">>, <<"t","e","m","p","u","r","a">>,
     <<"p","a","d","_","t","h","a","i">>, <<"p","h","o">>,
     <<"c","h","i","p","s">>, <<"c","r","a","c","k","e","r","s">>,
     <<"p","r","e","t","z","e","l","s">>, <<"p","o","p","c","o","r","n">>,
     <<"g","r","a","n","o","l","a">>, <<"s","o","u","p">>,
     <<"s","a","l","a","d">>, <<"s","t","e","w">>, <<"c","h","i","l","i">>,
     <<"b","r","o","t","h">>}

\* The keyword test on the label as decode_predictions gives it.
IsFoodRaw(class_name) ==
    \E food_word \in food_keywords : Contains(Lower(class_name), food_word)

\* is_food of lines 243-244.
IsFood(class_name) ==
    \E food_word \in food_keywords :
        Contains(ReplaceUnderscore(Lower(class_name)), food_word)

\* is_food of each class name.
IsFoodOf == [class_name \in ClassNames |-> IsFood(class_name)]

\* A percentage as an exact fraction: score * 100 for a final score in
\* ten-thousandths (line 249), confidence * 100 for a raw confidence in
\* hundredths (line 250).
ScoreTimes100(score) == Frac(score[1] * 100, score[2] * 10000)
RawTimes100(confidence) == Frac(confidence * 100, 100)

\* extract_food_predictions (237-254).
extract_food_predictions(ensemble_results) ==
    LET kept == SelectSeq(ensemble_results, LAMBDA pred : IsFoodOf[pred.class_name])
    IN  [i \in DOMAIN kept |->
            [class_name |-> Title(ReplaceUnderscore(kept[i].class_name)),
             confidence |-> ScoreTimes100(kept[i].confidence),
             max_confidence |-> RawTimes100(kept[i].max_confidence),
             model_agreement |-> kept[i].model_agreement]]

\* None where a number is expected.
NoNumber == <<0, 0>>

\* What detect_food returns, with the food_predictions it chose from.
NotDetected ==
    [called |-> FALSE, food_predictions |-> <<>>,
     class_name |-> NoFood, confidence |-> NoNumber]
Detected(food_predictions, class_name, confidence) ==
    [called |-> TRUE, food_predictions |-> food_predictions,
     class_name |-> class_name, confidence |-> confidence]

\* Lines 268-288 of detect_food on the list get_model_predictions gave,
\* with models loaded models: the ensemble results and what is returned.
detect_food(preds, models) ==
    IF preds = <<>>
    THEN [ensemble |-> NotCalled, detection |-> Detected(<<>>, NoFood, NoNumber)]
    ELSE LET ensemble_results == ensemble_prediction(preds, models)
             food_predictions == extract_food_predictions(ensemble_results)
         IN  [ensemble |-> [called |-> TRUE, final_predictions |-> ensemble_results],
              detection |->
                  IF food_predictions = <<>>
                  THEN Detected(<<>>, UnknownFoodItem, <<0, 1>>)
                  ELSE Detected(food_predictions,
                                food_predictions[1].class_name,
                                food_predictions[1].confidence)]

\* One call of detect_food from line 266 on, and in it the one call of
\* ensemble_prediction on the list.
DetectFood ==
    /\ ~detection.called
    /\ LET r == detect_food(all_predictions, nModels)
       IN  /\ ensemble' = r.ensemble
           /\ detection' = r.detection
    /\ UNCHANGED <<all_predictions, nModels>>
    /\ UNCHANGED <<statsVars, learnVars, nutriVars, viewVars>>

-----------------------------------------------------------------------------
(***************************************************************************)
(* FeedbackView.post (views.py 308-367) with UserFeedbackSerializer        *)
(* (serializers.py 78-124), one request at a time.  The analyses are the   *)
(* rows AnalyzeFoodView.post stored (views.py 97-112); analysis_id is the  *)
(* index of a row.                                                         *)
(***************************************************************************)

MaxAnalyses == 2        \* stored analyses

AnalysisNames == {Hamburger, PizzaName}
AnalysisConfidences == {5900, 8500}
AnalysisRows == [food_name : AnalysisNames, confidence : AnalysisConfidences]

\* What a request carries: analysis_id (0: none given, MaxAnalyses + 1: an
\* id no row has), feedback_type ("None": not given) and correct_food.
AnalysisIds == 0..(MaxAnalyses + 1)
FeedbackTypeInputs == FEEDBACK_TYPES \cup {"delicious", "None"}
CorrectFoodInputs == {NoFood, cheeseburger}

\* Meta.fields (serializers.py 81-85) and those of them that are read-only
\* (id is not editable, created_at is auto_now_add).
MetaFields ==
    {"id", "feedback_type", "predicted_food", "correct_food",
     "original_confidence", "correction_reason", "user_notes", "created_at"}
ReadOnlyFields == {"id", "created_at"}

\* The non-null columns of UserFeedback without a default (models.py 61-67).
RequiredColumns ==
    {"food_analysis", "feedback_type", "predicted_food", "original_confidence"}

\* feedback_data of lines 328-336, for an anonymous user.
FeedbackData(analysis_id, feedback_type, correct_food) ==
    [food_analysis |-> <<analysis_id>>,
     feedback_type |-> <<feedback_type>>,
     predicted_food |-> analyses[analysis_id].food_name,
     correct_food |-> correct_food,
     original_confidence |-> <<analyses[analysis_id].confidence>>,
     correction_reason |-> NoFood,
     user_notes |-> <<>>]

\* serializer.is_valid() (line 344): feedback_type is a choice field.
IsValid(data) == data.feedback_type[1] \in FEEDBACK_TYPES

\* serializer.validated_data: the writable fields of Meta.fields, whatever
\* other keys the data has.
ValidatedData(data) ==
    [k \in (DOMAIN data \cap MetaFields) \ ReadOnlyFields |-> data[k]]

\* Whether UserFeedback.objects.create(**validated_data) (line 89) raises
\* IntegrityError: a NOT NULL column gets no value.
CreateRaises(validated_data) == ~(RequiredColumns \subseteq DOMAIN validated_data)

\* _update_learning_cache (serializers.py 97-124) run alone: the table
\* after it.  correct_food None raises at line 104, caught at line 120.
LearningAfter(predicted_food, correct_food, confidence) ==
    IF correct_food = NoFood THEN learning
    ELSE LET pred == NormalizeFood(predicted_food)
             corr == NormalizeFood(correct_food)
             rows == RowsOfPair(learning, pred, corr)
         IN  IF rows = {}
             THEN learning \cup {NewLearningRow(pred, corr, confidence, clock + 1)}
             ELSE LET row == CHOOSE e \in rows : TRUE
                  IN  (learning \ {row})
                         \cup {[UpdatedEntry(row, confidence) EXCEPT !.last_seen = clock + 1]}

\* _update_statistics_from_feedback (views.py 369-403) run alone: the
\* table after it.  Several rows of the date make get_or_create raise,
\* caught at line 402.
StatsAfterFeedback(feedback_type, confidence) ==
    LET rows == RowsOfDate(today)
    IN  IF rows = {}
        THEN Append(stats, ApplyFeedback(NewStatsRow(today), feedback_type, confidence))
        ELSE IF Cardinality(rows) = 1
             THEN LET i == CHOOSE j \in rows : TRUE
                  IN  [stats EXCEPT ![i] = ApplyFeedback(stats[i], feedback_type, confidence)]
             ELSE stats

NoResponse == [status |-> 0, analysis_id |-> 0, feedback_type |-> "None",
               correct_food |-> NoFood]

\* One POST /feedback/ (one request in a behaviour shows all it does).
FeedbackPost ==
    /\ responses = NoResponse
    /\ \E analysis_id \in AnalysisIds, feedback_type \in FeedbackTypeInputs,
          correct_food \in CorrectFoodInputs :
        LET Respond(code) == [status |-> code, analysis_id |-> analysis_id,
                              feedback_type |-> feedback_type,
                              correct_food |-> correct_food]
            data == FeedbackData(analysis_id, feedback_type, correct_food)
            validated_data == ValidatedData(data)
            confidence == analyses[analysis_id].confidence
        IN  IF analysis_id = 0
            THEN /\ responses' = Respond(400)
                 /\ UNCHANGED <<analyses, feedbacks, statsVars, learnVars>>
            ELSE IF analysis_id \notin DOMAIN analyses
            THEN /\ responses' = Respond(404)
                 /\ UNCHANGED <<analyses, feedbacks, statsVars, learnVars>>
            ELSE IF ~IsValid(data)
            THEN /\ responses' = Respond(400)
                 /\ UNCHANGED <<analyses, feedbacks, statsVars, learnVars>>
            ELSE IF CreateRaises(validated_data)
            THEN \* IntegrityError out of serializer.save(), caught at line 362
                 /\ responses' = Respond(500)
                 /\ UNCHANGED <<analyses, feedbacks, statsVars, learnVars>>
            ELSE /\ feedbacks' = Append(feedbacks, validated_data)
                 /\ IF feedback_type \in {"correction", "wrong"}
                    THEN /\ learning' = LearningAfter(data.predicted_food,
                                                       correct_food, confidence)
                         /\ clock' = clock + 1
                    ELSE UNCHANGED <<learning, clock>>
                 /\ stats' = StatsAfterFeedback(feedback_type, confidence)
                 /\ responses' = Respond(201)
                 /\ UNCHANGED <<analyses, sproc, today, opsStarted, nPredDone, nFbDone,
                                lproc, submitted, lookupOut>>
    /\ UNCHANGED <<food_database, analyzed>>
    /\ UNCHANGED <<nutriVars, ensVars>>

-----------------------------------------------------------------------------
(***************************************************************************)
(* AnalyzeFoodView.post (views.py 35-158), one request at a time, with the *)
(* detector's detect_food from the image on                                *)
(* (utils/enhanced_food_detector.py 152-190 and 256-288).  as_view()       *)
(* builds the view, its detector and its resolver anew for the request.    *)
(***************************************************************************)

\* self.model_weights (enhanced_food_detector.py 33-37), in hundredths.
model_weights == [resnet50 |-> 40, efficientnet |-> 35, inception |-> 25]

\* self.models after load_models (39-62), in the order of insertion: the
\* three models, or ResNet50 alone when loading them raised (the weights
\* of line 58 are replaced by those above, __init__ assigns them later).
LoadedModels == {<<"resnet50", "efficientnet", "inception">>, <<"resnet50">>}

\* The names of img_variations (lines 133, 137, 141, 144).
Variations == <<"original", "contrast", "brightness", "sharp">>

\* The (model, variation) pairs in the order the two loops of lines
\* 156-157 visit them.
Combinations(models) ==
    [k \in 1..(Len(models) * Len(Variations)) |->
        <<models[((k - 1) \div Len(Variations)) + 1],
          Variations[((k - 1) % Len(Variations)) + 1]>>]
CombinationSet(models) ==
    {Combinations(models)[k] : k \in DOMAIN Combinations(models)}

\* The pairs for which the try block of lines 158-186 raises: none, one,
\* every pair of the first model, all but the last pair, all.
RaisingSets(models) ==
    LET all == CombinationSet(models)
    IN  { {},
          {<<"resnet50", "original">>},
          {c \in all : c[1] = "resnet50"},
          all \ {<<models[Len(models)], "sharp">>},
          all }

\* What is on the picture, and the head of what decode_predictions (line
\* 173) gives a model for it, whatever the variation: a pizza, on which
\* the models differ in confidence, or a hot dog, whose label is not food
\* for extract_food_predictions.
Scenes == {"pizza", "hot_dog"}
Decoded(scene, model_name) ==
    IF scene = "pizza"
    THEN <<[class_name |-> pizza,
            confidence |-> IF model_name = "resnet50" THEN 90
                           ELSE IF model_name = "efficientnet" THEN 60
                           ELSE 50]>>
    ELSE <<[class_name |-> hot_dog_us, confidence |-> 60]>>

\* The loops of get_model_predictions (152-190) from the k-th pair on: a
\* pair that raises is logged and skipped (lines 185-187).
RECURSIVE PredictionsFrom(_, _, _, _)
PredictionsFrom(k, models, raising, scene) ==
    IF k > Len(models) * Len(Variations)
    THEN <<>>
    ELSE LET c == Combinations(models)[k]
             decoded == Decoded(scene, c[1])
             stored == IF c \in raising
                       THEN <<>>
                       ELSE [i \in DOMAIN decoded |->
                               [model |-> c[1], variation |-> c[2], rank |-> i - 1,
                                class_name |-> decoded[i].class_name,
                                confidence |-> decoded[i].confidence,
                                weight |-> model_weights[c[1]]]]
         IN  stored \o PredictionsFrom(k + 1, models, raising, scene)

\* get_model_predictions without the try of line 158: the first pair
\* that raises ends the call, and no list comes back.
get_model_predictions_no_try(models, raising, scene) ==
    IF raising \cap CombinationSet(models) # {}
    THEN <<>>
    ELSE PredictionsFrom(1, models, raising, scene)

get_model_predictions(models, raising, scene) ==
    PredictionsFrom(1, models, raising, scene)

\* The pairs that left a prediction in the list.
YieldedBy(all_preds) ==
    {<<all_preds[i].model, all_preds[i].variation>> : i \in DOMAIN all_preds}

\* The request: no file, a file that is no image (lines 40-60), a file
\* with an image content type that PIL cannot open (preprocessing returns
\* (None, None), lines 148-150), or an image.
Uploads == {"none", "not_image", "unreadable", "image"}

\* What the sources answer to the request's resolver (a web search that
\* matches one field ends as one that failed, so one of the two is drawn).
ViewAnswersWith ==
    [key \in BOOLEAN |->
      {answers \in SourceAnswersWith[key] :
        answers.google.status = "ok" => Cardinality(answers.google.matched) >= 2}]

ViewAnswers == ViewAnswersWith[usda_api_key]

\* What detect_food (lines 256-275) makes of every set of loaded models,
\* scene and set of failing forward passes: the prediction loop of lines
\* 120-187 followed by the ensemble, which read nothing but their inputs.
Detections ==
    [models \in LoadedModels |->
      [scene \in Scenes |->
        [raising \in RaisingSets(models) |->
          LET all_preds == get_model_predictions(models, raising, scene)
          IN  [yielded |-> YieldedBy(all_preds),
               detection |-> detect_food(all_preds, Len(models)).detection]]]]

\* Whether the query of _apply_learning_corrections raises (on an empty
\* table the answer is the same either way).
QueryErrors == IF learning = {} THEN {FALSE} ELSE BOOLEAN

\* The confidence detect_food returns, a percentage, in hundredths.
Hundredths(percent) == (percent[1] * 100) \div percent[2]

\* _update_system_statistics (views.py 185-229) run alone: the table
\* after it.  Several rows of the date make get_or_create raise, caught
\* at line 228.
StatsAfterPrediction(confidence, data_source) ==
    LET rows == RowsOfDate(today)
    IN  IF rows = {}
        THEN Append(stats, ApplyPrediction(NewStatsRow(today), confidence, data_source))
        ELSE IF Cardinality(rows) = 1
             THEN LET i == CHOOSE j \in rows : TRUE
                  IN  [stats EXCEPT ![i] = ApplyPrediction(stats[i], confidence, data_source)]
             ELSE stats

\* The FoodDatabase rows that the analyses stored in rows have left.
FoodDatabaseOf(rows) ==
    [k \in {Strip(Lower(rows[i].food_name)) : i \in DOMAIN rows} |->
        Cardinality({i \in DOMAIN rows : Strip(Lower(rows[i].food_name)) = k})]

\* _update_food_database_stats (views.py 231-248).
FoodDatabaseAfter(food_name) ==
    LET key == Strip(Lower(food_name))
    IN  [k \in DOMAIN food_database \cup {key} |->
            IF k = key
            THEN (IF key \in DOMAIN food_database THEN food_database[key] ELSE 0) + 1
            ELSE food_database[k]]

NotAnalyzed ==
    [status |-> 0, upload |-> "none", models |-> <<>>, raised |-> {}, yielded |-> {},
     detected_name |-> NoFood, detected_confidence |-> 0, query_failed |-> FALSE,
     food_name |-> NoFood, confidence |-> 0, nutrition |-> FALSE, saved |-> FALSE]

\* One POST /analyze/ (one request in a behaviour shows all it does).
AnalyzePost ==
    /\ analyzed = NotAnalyzed
    /\ Len(analyses) < MaxAnalyses
    /\ \E upload \in Uploads :
        IF upload \in {"none", "not_image"}
        THEN \* lines 40-60
             /\ analyzed' = [NotAnalyzed EXCEPT !.status = 400, !.upload = upload]
             /\ UNCHANGED <<analyses, food_database, stats>>
        ELSE IF upload = "unreadable"
        THEN \* detect_food returns (None, None) at line 263, and the
             \* format of views.py line 65 raises TypeError, caught at 66
             /\ analyzed' = [NotAnalyzed EXCEPT !.status = 500, !.upload = upload]
             /\ UNCHANGED <<analyses, food_database, stats>>
        ELSE \E models \in LoadedModels, scene \in Scenes :
             \E raising \in RaisingSets(models) :
               LET detected == Detections[models][scene][raising].detection
                   request == [NotAnalyzed EXCEPT
                                 !.upload = upload, !.models = models,
                                 !.raised = raising,
                                 !.yielded = Detections[models][scene][raising].yielded]
               IN  IF detected.class_name = NoFood
                   THEN \* (None, None) from line 271, and TypeError as above
                        /\ analyzed' = [request EXCEPT !.status = 500]
                        /\ UNCHANGED <<analyses, food_database, stats>>
                   ELSE \E dbError \in QueryErrors, answers \in ViewAnswers,
                           saveFails \in BOOLEAN :
                        \E corrected \in LearningCorrections(learning, detected.class_name,
                                             Hundredths(detected.confidence), dbError) :
                          LET food_name == corrected.out_name
                              confidence == corrected.out_confidence
                              nutrition == get_comprehensive_nutrition(EmptyCache,
                                                                       food_name, answers)
                              data_source == IF nutrition.trace.surfaced
                                             THEN "fallback"
                                             ELSE nutrition.result.source
                              response == [request EXCEPT
                                             !.status = 200,
                                             !.detected_name = detected.class_name,
                                             !.detected_confidence =
                                                 Hundredths(detected.confidence),
                                             !.query_failed = dbError,
                                             !.food_name = food_name,
                                             !.confidence = confidence,
                                             !.nutrition = data_source # "none"]
                          IN  IF saveFails
                              THEN \* FoodAnalysis.objects.create raises, caught at 120
                                   /\ analyzed' = response
                                   /\ UNCHANGED <<analyses, food_database, stats>>
                              ELSE /\ analyses' = Append(analyses,
                                          [food_name |-> food_name,
                                           confidence |-> confidence])
                                   /\ stats' = StatsAfterPrediction(confidence, data_source)
                                   /\ food_database' = FoodDatabaseAfter(food_name)
                                   /\ analyzed' = [response EXCEPT !.saved = TRUE]
    /\ UNCHANGED <<feedbacks, responses>>
    /\ UNCHANGED <<sproc, today, opsStarted, nPredDone, nFbDone>>
    /\ UNCHANGED <<learnVars, nutriVars, ensVars>>


\* The part of the state a specification does not use stays as constructed.
PinStats ==
    /\ stats = <<>>
    /\ sproc = [p \in Procs |-> IdleStats]
    /\ today = 1
    /\ opsStarted = 0
    /\ nPredDone = 0
    /\ nFbDone = 0

PinLearn ==
    /\ learning = {}
    /\ lproc = [p \in Procs |-> IdleLearn]
    /\ clock = 0
    /\ submitted = [pr \in LearnPairs |-> NoSubmission]
    /\ lookupOut = NoLookup

PinNutri ==
    /\ usda_api_key = FALSE
    /\ scraping_cache = EmptyCache
    /\ now = 0
    /\ res = NoResolution

PinEns ==
    /\ all_predictions = <<>>
    /\ nModels = NumModels
    /\ ensemble = NotCalled
    /\ detection = NotDetected

PinView ==
    /\ analyses = <<>>
    /\ feedbacks = <<>>
    /\ food_database = FoodDatabaseOf(<<>>)
    /\ responses = NoResponse
    /\ analyzed = NotAnalyzed

InitStats == PinStats /\ PinLearn /\ PinNutri /\ PinEns /\ PinView

NextStats ==
    \/ \E p \in Procs : RecordPredictionGet(p)
    \/ \E p \in Procs : RecordFeedbackGet(p)
    \/ \E p \in Procs : GetOrCreateCreate(p)
    \/ \E p \in Procs : RecordPredictionSave(p)
    \/ \E p \in Procs : RecordFeedbackSave(p)
    \/ NextDay

SpecStats == InitStats /\ [][NextStats]_vars

AllStatsIdle == \A p \in Procs : sproc[p].pc = "idle"

RECURSIVE SumSeq(_)
SumSeq(s) == IF s = <<>> THEN 0 ELSE Head(s) + SumSeq(Tail(s))

\* Over the rows dated d: the predictions counted, the feedbacks counted.
DayPredictions(d) ==
    SumSeq([i \in DOMAIN stats |->
              IF stats[i].date = d THEN stats[i].total_predictions ELSE 0])
DayFeedbacks(d) ==
    SumSeq([i \in DOMAIN stats |->
              IF stats[i].date = d
              THEN stats[i].total_confirmations + stats[i].total_corrections ELSE 0])

\* C1: in every stored SystemStatistics row, under every interleaving of
\* record_prediction and record_feedback, the three tier counters add up to
\* total_predictions.
C1_TierSum ==
    \A i \in DOMAIN stats :
        stats[i].high_confidence_predictions + stats[i].medium_confidence_predictions
            + stats[i].low_confidence_predictions = stats[i].total_predictions

\* Two predictions ran interleaved on the one row of the day and one
\* overwrote the other: both returned, the row counts one.
C1_Witness ==
    /\ AllStatsIdle
    /\ nPredDone = 2
    /\ Len(stats) = 1
    /\ stats[1].total_predictions = 1

\* C4 (as claimed): once n record_prediction and m record_feedback calls
\* of one date have all returned, the date's total_predictions is n and its
\* total_confirmations + total_corrections is the number of feedbacks of
\* type perfect, confirmation, correction or wrong.
C4_NoLostStatsUpdate ==
    (AllStatsIdle /\ today = 1) =>
        /\ DayPredictions(1) = nPredDone
        /\ DayFeedbacks(1) = nFbDone

\* C14 (as claimed): in every reachable state there is at most one
\* statistics record per calendar date, also when several operations run
\* their fetch-or-create for a new date at the same time.
C14_OneRowPerDate ==
    \A i, j \in DOMAIN stats : stats[i].date = stats[j].date => i = j

\* The counters of a statistics record.
TierCorrectFields ==
    {"high_confidence_correct", "medium_confidence_correct", "low_confidence_correct"}
TierPredictionFields ==
    {"high_confidence_predictions", "medium_confidence_predictions",
     "low_confidence_predictions"}
CounterFields ==
    {"total_predictions", "correct_predictions", "total_corrections",
     "total_confirmations", "total_nutrition_searches",
     "successful_nutrition_searches"}
        \cup TierCorrectFields \cup TierPredictionFields

\* The tier "correct" counter of a confidence: 80 and above high, 60 to 79
\* medium, below 60 low.
TierCorrectOf(original_confidence) ==
    IF original_confidence >= 8000 THEN "high_confidence_correct"
    ELSE IF original_confidence >= 6000 THEN "medium_confidence_correct"
    ELSE "low_confidence_correct"

\* The source tags the specification calls fallback, default or mock:
\* those of _get_fallback_nutrition, of the default record and of the
\* static table.
FallbackTags == {"fallback", "default_fallback", "mock_data"}

\* C22 (as claimed): a record_prediction that fetches (or creates) the
\* record of the day leaves in its copy total_nutrition_searches one above
\* the record fetched, and successful_nutrition_searches one above it
\* exactly when the source tag is none of fallback, default and mock.
C22_SearchCounters ==
    [][ \A p \in Procs, c \in Confidences, s \in DataSources :
            (GetOrCreateGet(p, "prediction", c, s) /\ sproc'[p].pc # "idle")
            => LET before == IF sproc'[p].pc = "save"
                             THEN stats[sproc'[p].row]
                             ELSE NewStatsRow(today)
                   after == sproc'[p].local
               IN  /\ after.total_nutrition_searches
                         = before.total_nutrition_searches + 1
                   /\ after.successful_nutrition_searches
                         = before.successful_nutrition_searches
                              + (IF s \in FallbackTags THEN 0 ELSE 1) ]_vars

C20_MonotoneCounters ==
    [][ /\ Len(stats') >= Len(stats)
        /\ \A i \in DOMAIN stats :
              \A f \in CounterFields : stats'[i][f] >= stats[i][f] ]_vars

\* A stored entry: its pair, and <<occurrence_count, confidence_boost,
\* last_seen>>.
StoredEntry(pr, v) ==
    [ predicted_food |-> pr[1], correct_food |-> pr[2],
      occurrence_count |-> v[1], confidence_boost |-> v[2],
      average_original_confidence |-> <<7000, 1>>, last_seen |-> v[3] ]

\* The tables the lookup is run on: per pair one entry or none (<<>>).
InitLookup ==
    /\ PinStats /\ PinNutri /\ PinEns /\ PinView
    /\ lproc = [p \in Procs |-> IdleLearn]
    /\ clock = MaxSeen
    /\ submitted = [pr \in LearnPairs |-> NoSubmission]
    /\ lookupOut = NoLookup
    /\ \E f \in [LookupPairs ->
                   {<<>>} \cup ((1..MaxCount) \X Boosts \X (1..MaxSeen))] :
          learning = {StoredEntry(pr, f[pr]) : pr \in {q \in LookupPairs : f[q] # <<>>}}

NextLookup == ApplyLearningCorrections

SpecLookup == InitLookup /\ [][NextLookup]_vars

-----------------------------------------------------------------------------
InitLearn == PinStats /\ PinLearn /\ PinNutri /\ PinEns /\ PinView

NextLearn ==
    \/ \E p \in Procs : UpdateLearningCacheGet(p)
    \/ \E p \in Procs : UpdateLearningCacheCreate(p)
    \/ \E p \in Procs : UpdateLearningCacheSave(p)

SpecLearn == InitLearn /\ [][NextLearn]_vars

\* What the table should hold for a pair after the k corrections submitted
\* for it: one row counting k, whose mean is their arithmetic mean.
PairSettled(pr) ==
    LET h == submitted[pr]
        rows == RowsOfPair(learning, pr[1], pr[2])
    IN  IF h.k = 0 THEN rows = {}
        ELSE /\ Cardinality(rows) = 1
             /\ \A e \in rows :
                   /\ e.occurrence_count = h.k
                   /\ e.average_original_confidence[1] * h.k
                        = h.sum * e.average_original_confidence[2]

\* C3 (as claimed): whatever the interleaving of k record_correction
\* operations on one normalized pair, once all have returned the entry's
\* occurrence_count is k and its average is the mean of the k confidences.
C3_NoLostCorrection ==
    \A pr \in LearnPairs : ~InFlight(pr[1], pr[2]) => PairSettled(pr)

\* C7: after k record_correction operations on one pair that ran one after
\* the other, occurrence_count is k and average_original_confidence is the
\* arithmetic mean of the k submitted confidences.
C7_IncrementalMean ==
    \A pr \in LearnPairs :
        (~InFlight(pr[1], pr[2]) /\ ~submitted[pr].overlapped) => PairSettled(pr)

\* Three corrections of one pair, one after the other, with a mean that
\* is none of the submitted values.
C7_Witness ==
    \E pr \in LearnPairs :
        /\ ~InFlight(pr[1], pr[2]) /\ ~submitted[pr].overlapped
        /\ submitted[pr].k = 3
        /\ submitted[pr].sum = 6000 + 7500 + 7500
        /\ \E e \in RowsOfPair(learning, pr[1], pr[2]) :
              e.occurrence_count = 3 /\ e.average_original_confidence = <<7000, 1>>

\* C21 (as claimed): the table holds at most one entry per normalized
\* pair, every entry has occurrence_count >= 1, no step removes an entry
\* or lowers its occurrence_count, and a lookup that returned a correction
\* for a name returns one ever after.
C21_CacheStructure ==
    [][ /\ \A e \in learning' :
              /\ e.occurrence_count >= 1
              /\ Cardinality(RowsOfPair(learning', e.predicted_food, e.correct_food)) = 1
        /\ \A e \in learning :
              \E f \in RowsOfPair(learning', e.predicted_food, e.correct_food) :
                 f.occurrence_count >= e.occurrence_count
        /\ \A name \in PredictedInputs, c \in CorrectionConfidences :
              (\E r \in LearningCorrections(learning, name, c, FALSE) : r.found)
                 => (\A r \in LearningCorrections(learning', name, c, FALSE) : r.found)
      ]_vars

\* C6: a lookup that finds an entry returns a confidence of at most 95%,
\* whatever the entry's occurrence_count and confidence_boost.
C6_BoostBound ==
    (lookupOut.called /\ lookupOut.found) => lookupOut.out_confidence <= 9500

\* An entry corrected MaxCount times with boost 1.5, looked up at 90%: the
\* product, 135%, is cut to 95%.
C6_Witness ==
    /\ lookupOut.called /\ lookupOut.found
    /\ lookupOut.confidence = 9000
    /\ lookupOut.out_confidence = 9500
    /\ \E e \in learning : /\ e.predicted_food = Strip(Lower(lookupOut.food_name))
                           /\ e.occurrence_count = MaxCount
                           /\ e.confidence_boost = 150

\* The largest of a non-empty set of numbers.
MaxOf(S) == CHOOSE x \in S : \A y \in S : y <= x

\* C9: a lookup whose query succeeds returns, when entries exist for the
\* lower-cased, trimmed predicted_food, the title-cased correct_food of the
\* entry with the highest occurrence_count (the most recent last_seen among
\* equals) and min(confidence * confidence_boost, 95%); with no entry it
\* returns its input.  ("Hamburger", 70%) on the single entry
\* hamburger -> cheeseburger at boost 1.15 gives ("Cheeseburger", 80.5%).
C9_LookupReference ==
    (lookupOut.called /\ ~lookupOut.dbError) =>
        LET key == Strip(Lower(lookupOut.food_name))
            m == {e \in learning : e.predicted_food = key}
        IN  /\ IF m = {}
               THEN /\ lookupOut.out_name = lookupOut.food_name
                    /\ lookupOut.out_confidence = lookupOut.confidence
               ELSE LET top == MaxOf({e.occurrence_count : e \in m})
                        tops == {e \in m : e.occurrence_count = top}
                        latest == MaxOf({e.last_seen : e \in tops})
                    IN  \E e \in tops :
                          /\ e.last_seen = latest
                          /\ lookupOut.out_name = Title(e.correct_food)
                          /\ lookupOut.out_confidence =
                                IF lookupOut.confidence * e.confidence_boost <= 9500 * 100
                                THEN (lookupOut.confidence * e.confidence_boost) \div 100
                                ELSE 9500
            /\ ( /\ lookupOut.food_name = Hamburger
                 /\ lookupOut.confidence = 7000
                 /\ \E e \in learning :
                       /\ learning = {e}
                       /\ e.predicted_food = hamburger /\ e.correct_food = cheeseburger
                       /\ e.confidence_boost = 115 )
               => /\ lookupOut.out_name = Cheeseburger
                  /\ lookupOut.out_confidence = 8050

\* "Hamburger" at 70% is looked up where hamburger has two entries: the
\* one seen more often, hot dog, wins over the more recent cheeseburger.
C9_Witness ==
    /\ lookupOut.called /\ ~lookupOut.dbError
    /\ lookupOut.food_name = Hamburger /\ lookupOut.confidence = 7000
    /\ \E e \in learning, f \in learning :
          /\ e.predicted_food = hamburger /\ e.correct_food = hot_dog_sp
          /\ f.predicted_food = hamburger /\ f.correct_food = cheeseburger
          /\ e.occurrence_count > f.occurrence_count /\ e.last_seen < f.last_seen
          /\ e.confidence_boost = 115
    /\ lookupOut.out_name = HotDogTitle
    /\ lookupOut.out_confidence = 8050


-----------------------------------------------------------------------------
InitNutri ==
    /\ PinStats /\ PinLearn /\ PinEns /\ PinView
    /\ usda_api_key \in BOOLEAN
    /\ scraping_cache = EmptyCache
    /\ now = 0
    /\ res = NoResolution

NextNutri ==
    \/ Resolve
    \/ AnalyzeResolve
    \/ AdvanceTime

SpecNutri == InitNutri /\ [][NextNutri]_vars

\* The steps of a resolution in the order of the specification.
StepOrder == <<"cache", "usda", "openfoodfacts", "google", "static", "default">>

\* C10: in every resolution the steps attempted are cache, USDA,
\* OpenFoodFacts, web search, static table, default record in this order,
\* each at most once and each only after every earlier one gave no accepted
\* result, and the record returned is the one of the step that succeeded.
C10_ResolutionOrder ==
    res # NoResolution =>
        LET n == Len(res.attempts)
        IN  /\ n >= 1 /\ n <= Len(StepOrder)
            /\ res.attempts = SubSeq(StepOrder, 1, n)
            /\ \A i \in 1..(n - 1) :
                   res.yields[i] = NoRecord \/ GetCalories(res.yields[i]) <= 0
            /\ res.yields[n] # NoRecord
            /\ res.result = res.yields[n]

\* USDA answered an item without energy, OpenFoodFacts failed, and the
\* web search was accepted: four steps, the fourth gives the record.
C10_Witness ==
    /\ res.attempts = <<"cache", "usda", "openfoodfacts", "google">>
    /\ res.yields[2] # NoRecord
    /\ res.yields[3] = NoRecord
    /\ res.result.source = "google_search"

\* C2 (as claimed): two resolutions of one label less than 7 days apart
\* return the same record and send at most one request to an external
\* source between them.
C2_CacheIdempotence ==
    [][ (/\ res # NoResolution
         /\ res' # res
         /\ res'.food_name = res.food_name
         /\ DaysBetween(res.at, res'.at) < FreshDays)
        => (/\ res'.result = res.result
            /\ res.calls + res'.calls <= 1) ]_vars


\* The tags of the three external sources.
ExternalTags == {"usda", "openfoodfacts", "google_search"}

\* C11: after any sequence of resolutions every entry of the nutrition
\* cache holds a record of an external source (tag usda, openfoodfacts or
\* google_search) with calories above 0, and a resolution that ends in the
\* static table or the default record leaves the cache unchanged.
C11_NoCachePoisoning ==
    [][ /\ \A k \in DOMAIN scraping_cache' :
              /\ scraping_cache'[k].data.source \in ExternalTags
              /\ GetCalories(scraping_cache'[k].data) > 0
        /\ (/\ res' # res
            /\ res'.attempts[Len(res'.attempts)] \in {"static", "default"})
           => scraping_cache' = scraping_cache ]_vars

\* The cache holds an entry, and the last resolution on the same resolver
\* asked a source that answered a record without energy and ended in the
\* static table or the default record.
C11_Witness ==
    /\ DOMAIN scraping_cache # {}
    /\ res.reused
    /\ \E i \in DOMAIN res.yields :
           res.yields[i] # NoRecord /\ GetCalories(res.yields[i]) = 0
    /\ res.attempts[Len(res.attempts)] \in {"static", "default"}

\* C12: when USDA and OpenFoodFacts yield no result and the web search
\* extracts fewer than 2 of the 4 macro fields, resolving "Pizza", which
\* matches a key of the static table exactly, returns that entry tagged
\* "mock_data" (266 kcal, 11 g protein, 10 g fat, 33 g carbs), and nothing
\* is cached.
C12_FallbackScenario ==
    [][ (/\ res' # res
         /\ res'.food_name = PizzaName
         /\ Len(res'.attempts) >= 4
         /\ res'.attempts[4] = "google"
         /\ res'.yields[2] = NoRecord
         /\ res'.yields[3] = NoRecord
         /\ Cardinality(res'.matched) < 2)
        => (/\ res'.result.source = "mock_data"
            /\ res'.result.calories = 2660
            /\ res'.result.protein = 110
            /\ res'.result.fat = 100
            /\ res'.result.carbs = 330
            /\ \E i \in DOMAIN mock_data :
                   /\ mock_data[i][1] = Lower(PizzaName)
                   /\ res'.result = Tagged(mock_data[i][2], "mock_data")
            /\ scraping_cache' = scraping_cache) ]_vars

\* "Pizza" was resolved, both APIs gave nothing, the web search matched
\* the calories only, and the record returned is the one of the table.
C12_Witness ==
    /\ res.food_name = PizzaName
    /\ res.attempts = <<"cache", "usda", "openfoodfacts", "google", "static">>
    /\ res.yields[2] = NoRecord
    /\ res.yields[3] = NoRecord
    /\ res.matched = {"calories"}
    /\ res.result.source = "mock_data"

\* C13: whatever the external sources do (time out, answer a non-success
\* status, raise, or answer unusable data), get_comprehensive_nutrition
\* returns exactly one nutrition record and no exception leaves it.
C13_ResolverTotal ==
    res # NoResolution =>
        /\ ~res.surfaced
        /\ res.result # NoRecord
        /\ MacroFields \cap DOMAIN res.result # {}
        /\ res.result.source \in
               ExternalTags \cup {"mock_data", "default_fallback"}

\* USDA answered an item whose energy is null, the comparison raised and
\* was caught, the two other sources failed, and the default record came
\* back.
C13_Witness ==
    /\ res.caught = 1
    /\ res.yields[3] = NoRecord
    /\ res.yields[4] = NoRecord
    /\ res.result = DefaultRecord

\* C18: on a resolver that lives on, an entry of 7 days or more is never
\* returned (the resolution goes on to the external sources as on a miss),
\* an entry younger than 7 days is returned at once without any external
\* call, and a stale entry stays until the next accepted external result
\* replaces it under the same key.
C18_CacheStaleness ==
    [][ (res' # res /\ res'.reused) =>
          LET k == CleanNameOf[res'.food_name]
              age == DaysBetween(scraping_cache[k].timestamp, now)
              external == res'.result.source \in ExternalTags
          IN  k \in DOMAIN scraping_cache =>
                IF age >= FreshDays
                THEN /\ Len(res'.attempts) >= 2
                     /\ res'.attempts[2] = "usda"
                     /\ res'.yields[1] = NoRecord
                     /\ DOMAIN scraping_cache' = DOMAIN scraping_cache
                     /\ scraping_cache'[k] =
                            IF external
                            THEN [data |-> res'.result, timestamp |-> now]
                            ELSE scraping_cache[k]
                ELSE /\ res'.attempts = <<"cache">>
                     /\ res'.calls = 0
                     /\ res'.result = scraping_cache[k].data
                     /\ scraping_cache' = scraping_cache ]_vars

\* The last resolution found an entry of 7 days, went on to the sources,
\* and the entry of its key now holds the record it returned.
C18_Witness ==
    /\ res.reused
    /\ res.found = "stale"
    /\ res.result.source \in ExternalTags
    /\ LET k == CleanNameOf[res.food_name]
       IN  /\ k \in DOMAIN scraping_cache
           /\ scraping_cache[k] = [data |-> res.result, timestamp |-> res.at]


-----------------------------------------------------------------------------
InitEnsemble ==
    /\ PinStats /\ PinLearn /\ PinNutri /\ PinView
    /\ all_predictions \in UNION {[1..n -> Predictions] : n \in 0..MaxPreds}
    /\ nModels \in 1..NumModels
    /\ ensemble = NotCalled
    /\ detection = NotDetected

NextEnsemble == DetectFood

SpecEnsemble == InitEnsemble /\ [][NextEnsemble]_vars

\* The scenario: three models of weight 0.33, one saying pizza with 0.9,
\* two saying hot dog with 0.5 and 0.6, in any order of the list.
ScenarioPredictions ==
    {[class_name |-> pizza, confidence |-> 90, weight |-> 33],
     [class_name |-> hot_dog_sp, confidence |-> 50, weight |-> 33],
     [class_name |-> hot_dog_sp, confidence |-> 60, weight |-> 33]}
InScenario ==
    /\ nModels = 3
    /\ Len(all_predictions) = 3
    /\ {all_predictions[i] : i \in 1..3} = ScenarioPredictions
    /\ ensemble.called

\* C8 (as claimed): in the scenario the ensemble ranks hot dog above
\* pizza, hot dog is the top entry.
C8_HotDogFirst ==
    InScenario =>
        /\ Len(ensemble.final_predictions) = 2
        /\ ensemble.final_predictions[1].class_name = hot_dog_sp
        /\ ensemble.final_predictions[2].class_name = pizza

\* C8 (amended): in the scenario the ensemble ranks pizza above hot dog:
\* pizza scores 0.9 * 0.33 + 0.1 / 3 = 0.3303, hot dog scores
\* (0.5 * 0.33 + 0.6 * 0.33) / 2 + 0.2 / 3 = 0.2482.
C8_PizzaFirst ==
    InScenario =>
        /\ Len(ensemble.final_predictions) = 2
        /\ ensemble.final_predictions[1].class_name = pizza
        /\ ensemble.final_predictions[1].confidence = Frac(2970 * 3 + 1000, 3)
        /\ ensemble.final_predictions[1].model_agreement = 1
        /\ ensemble.final_predictions[2].class_name = hot_dog_sp
        /\ ensemble.final_predictions[2].confidence = Frac(3630 * 3 + 4000, 6)
        /\ ensemble.final_predictions[2].model_agreement = 2

\* The scenario with the two hot dog predictions ahead of the pizza one.
C8_Witness ==
    /\ InScenario
    /\ all_predictions[3].class_name = pizza
    /\ ensemble.final_predictions[1].class_name = pizza


\* Whether the normalized label (lowercase, underscores to spaces) of a
\* class holds a food keyword.
HasFoodKeyword ==
    [class_name \in ClassNames |->
        \E food_word \in food_keywords :
            Contains(ReplaceUnderscore(Lower(class_name)), food_word)]

\* a <= b for fractions with positive denominators.
FracLeq(a, b) == a[1] * b[2] <= b[1] * a[2]

\* C17: detect_food returns the entry with the highest final score among
\* the ensemble entries whose normalized label holds a food keyword, the
\* label in title case with spaces and the score times 100; an entry
\* without a keyword is never returned; with no such entry the result is
\* ("Unknown Food Item", 0).
C17_FoodFilterTop ==
    (detection.called /\ all_predictions # <<>>) =>
        LET entries == ensemble.final_predictions
            food == {i \in DOMAIN entries : HasFoodKeyword[entries[i].class_name]}
        IN  IF food = {}
            THEN /\ detection.class_name = UnknownFoodItem
                 /\ detection.confidence = <<0, 1>>
            ELSE \E i \in food :
                   /\ \A j \in food :
                          FracGeq(entries[i].confidence, entries[j].confidence)
                   /\ detection.class_name =
                          Title(ReplaceUnderscore(entries[i].class_name))
                   /\ detection.confidence =
                          Frac(entries[i].confidence[1], entries[i].confidence[2] * 100)

\* The ensemble ranks "hot_dog" first, whose normalized label "hot dog"
\* holds no keyword, then cheeseburger above pizza: "Cheeseburger" is
\* returned.
C17_Witness ==
    /\ detection.called
    /\ Len(ensemble.final_predictions) = 3
    /\ ensemble.final_predictions[1].class_name = hot_dog_us
    /\ ensemble.final_predictions[2].class_name = cheeseburger
    /\ ensemble.final_predictions[3].class_name = pizza
    /\ detection.class_name = Cheeseburger
    /\ detection.confidence =
           Frac(ensemble.final_predictions[2].confidence[1],
                ensemble.final_predictions[2].confidence[2] * 100)

\* C19: for every list of predictions with raw confidences between 0 and
\* 1 and the weights of the roster, the confidence detect_food returns is a
\* percentage between 0 and 100, and so are the confidence and the
\* max_confidence of every food prediction.
C19_ConfidenceRange ==
    (detection.called /\ all_predictions # <<>>) =>
        /\ FracLeq(<<0, 1>>, detection.confidence)
        /\ FracLeq(detection.confidence, <<100, 1>>)
        /\ \A i \in DOMAIN detection.food_predictions :
              LET pred == detection.food_predictions[i]
              IN  /\ FracLeq(<<0, 1>>, pred.confidence)
                  /\ FracLeq(pred.confidence, <<100, 1>>)
                  /\ FracLeq(<<0, 1>>, pred.max_confidence)
                  /\ FracLeq(pred.max_confidence, <<100, 1>>)

\* Three predictions of pizza at 0.9 with the weight 0.4 and one model
\* loaded: the score is 0.36 + 0.1, the highest the lists reach, and 46
\* percent is returned.
C19_Witness ==
    /\ detection.called
    /\ nModels = 1
    /\ Len(all_predictions) = MaxPreds
    /\ \A i \in DOMAIN all_predictions :
           all_predictions[i] = [class_name |-> pizza, confidence |-> 90, weight |-> 40]
    /\ detection.class_name = PizzaName
    /\ detection.confidence = <<46, 1>>


-----------------------------------------------------------------------------
\* The LearningCache tables a request finds: no entry, or the entry that
\* renames pizza to cheeseburger.
ViewTables == { {}, {StoredEntry(<<pizza, cheeseburger>>, <<1, DefaultBoost, 1>>)} }

InitView ==
    /\ PinStats /\ PinNutri /\ PinEns
    /\ learning \in ViewTables
    /\ lproc = [p \in Procs |-> IdleLearn]
    /\ clock = Cardinality(learning)
    /\ submitted = [pr \in LearnPairs |-> NoSubmission]
    /\ lookupOut = NoLookup
    /\ analyses \in UNION {[1..n -> AnalysisRows] : n \in 1..MaxAnalyses}
    /\ feedbacks = <<>>
    /\ food_database = FoodDatabaseOf(analyses)
    /\ responses = NoResponse
    /\ analyzed = NotAnalyzed

NextView == FeedbackPost \/ AnalyzePost

SpecView == InitView /\ [][NextView]_vars

\* C5 (as claimed): a feedback for a stored analysis with one of the five
\* feedback types is acknowledged and recorded, the statistics of the day
\* are updated, and the learning cache is updated when the type is
\* correction or wrong.
C5_FeedbackAcknowledged ==
    [][ (/\ responses' # responses
         /\ responses'.analysis_id \in DOMAIN analyses
         /\ responses'.feedback_type \in FEEDBACK_TYPES)
        => (/\ responses'.status = 201
            /\ Len(feedbacks') = Len(feedbacks) + 1
            /\ \E i \in DOMAIN stats' : stats'[i].date = today'
            /\ (responses'.feedback_type \in {"correction", "wrong"}
                   => learning' # learning)) ]_vars

\* C16: a (model, variation) pair whose invocation raises is skipped, and
\* the predictions of the other pairs are the ones used: POST /analyze/
\* answers 200 when at least one pair left predictions.  It fails (400 or
\* 500, no FoodAnalysis row stored, SystemStatistics and FoodDatabase as
\* they were) exactly when no prediction was obtained.
C16_EnsembleErrorPolicy ==
    [][ (feedbacks' = feedbacks /\ responses' = responses)
        => LET a == analyzed'
           IN  /\ a.yielded \cap a.raised = {}
               /\ a.upload = "image"
                     => a.yielded = CombinationSet(a.models) \ a.raised
               /\ (a.status = 200) <=> (a.yielded # {})
               /\ a.status = 200 => a.food_name # NoFood
               /\ a.status # 200
                     => /\ a.status \in {400, 500}
                        /\ analyses' = analyses
                        /\ stats' = stats
                        /\ food_database' = food_database ]_vars

\* Every pair but the last raised, and the analysis was stored with what
\* the last pair predicted.
C16_Witness ==
    /\ analyzed.status = 200
    /\ analyzed.saved
    /\ analyzed.yielded = {<<"inception", "sharp">>}
    /\ Cardinality(analyzed.raised) = 11
    /\ analyzed.food_name = PizzaName
    /\ analyses[Len(analyses)] =
          [food_name |-> PizzaName, confidence |-> analyzed.confidence]
    /\ \E i \in DOMAIN stats : stats[i].total_predictions = 1

\* C23 (as claimed): the ensemble entries are in descending order of
\* final score; of two entries of equal final score the one with more
\* observations comes first, and with as many observations the one with
\* the higher max_confidence.
C23_DeterministicRanking ==
    ensemble.called =>
        LET entries == ensemble.final_predictions
        IN  \A i, j \in DOMAIN entries :
               i < j =>
                 \/ ~FracGeq(entries[j].confidence, entries[i].confidence)
                 \/ /\ entries[i].confidence = entries[j].confidence
                    /\ \/ entries[i].model_agreement > entries[j].model_agreement
                       \/ /\ entries[i].model_agreement = entries[j].model_agreement
                          /\ entries[i].max_confidence >= entries[j].max_confidence

\* The normalization of a class label: lowercase, underscores to spaces.
NormalizedLabel(class_name) == ReplaceUnderscore(Lower(class_name))

\* C24 (as claimed): the ensemble result holds exactly one entry per
\* distinct normalized label of the prediction list.
C24_GroupedByNormalizedLabel ==
    ensemble.called =>
        LET entries == ensemble.final_predictions
        IN  /\ \A i, j \in DOMAIN entries :
                  NormalizedLabel(entries[i].class_name)
                     = NormalizedLabel(entries[j].class_name) => i = j
            /\ \A k \in DOMAIN all_predictions :
                  \E i \in DOMAIN entries :
                     NormalizedLabel(entries[i].class_name)
                        = NormalizedLabel(all_predictions[k].class_name)

\* The nutrient fields of a record.
NutrientFields == MacroFields \cup {"fiber", "sugar", "sodium"}

\* C25 (as claimed): a record the web search returns has at least 2 of
\* the 4 macro fields extracted, and holds every nutrient field that was
\* not extracted, macro fields included, with the value 0.
C25_WebSearchRecord ==
    \A k \in DOMAIN res.attempts :
        (res.attempts[k] = "google" /\ res.yields[k] # NoRecord)
        => /\ Cardinality(res.matched \cap MacroFields) >= 2
           /\ \A field \in NutrientFields \ res.matched :
                 /\ field \in DOMAIN res.yields[k]
                 /\ res.yields[k][field] = 0

\* C27 (as claimed): on a table whose entries all have confidence_boost
\* >= 1, a lookup at any confidence from 0 to 100 returns a confidence
\* that is at least the one it was given.
C27_NeverLowered ==
    (lookupOut.called /\ \A e \in learning : e.confidence_boost >= 100)
        => lookupOut.out_confidence >= lookupOut.confidence

\* C27 (amended): on a table whose entries all have confidence_boost >= 1,
\* a lookup at a confidence of at most 95% returns a confidence that is at
\* least the one it was given; a lookup that finds an entry at a
\* confidence above 95% returns 95%.
C27_RaisedUpToCap ==
    (lookupOut.called /\ \A e \in learning : e.confidence_boost >= 100)
        => /\ lookupOut.confidence <= BoostCap
                 => lookupOut.out_confidence >= lookupOut.confidence
           /\ (lookupOut.found /\ lookupOut.confidence > BoostCap)
                 => lookupOut.out_confidence = BoostCap

\* A lookup at 100% that finds an entry, all of boost 1.0, returns 95%.
C27_Witness ==
    /\ lookupOut.called /\ lookupOut.found
    /\ \A e \in learning : e.confidence_boost = 100
    /\ lookupOut.confidence = 10000
    /\ lookupOut.out_confidence = BoostCap

\* C26: when the query of the Learning Cache lookup raises, POST /analyze/
\* goes on with the food name and the confidence the detector returned,
\* answers 200 with a nutrition record, and leaves the LearningCache table
\* as it was.
C26_LookupFailureRecovered ==
    [][ (feedbacks' = feedbacks /\ responses' = responses /\ analyzed'.query_failed)
        => /\ analyzed'.status = 200
           /\ analyzed'.food_name = analyzed'.detected_name
           /\ analyzed'.confidence = analyzed'.detected_confidence
           /\ analyzed'.nutrition
           /\ learning' = learning ]_vars

\* The table renames pizza to cheeseburger; the query raised, and the
\* analysis was stored as Pizza.
C26_Witness ==
    /\ analyzed.status = 200
    /\ analyzed.query_failed
    /\ \E e \in learning : e.predicted_food = Strip(Lower(analyzed.detected_name))
    /\ analyzed.food_name = PizzaName
    /\ analyzed.saved
    /\ analyses[Len(analyses)].food_name = PizzaName

\* C28 (as claimed): in every stored statistics record, after any sequence
\* of record_prediction and record_feedback operations, correct_predictions
\* is at most total_predictions, every tier's correct counter is at most
\* that tier's prediction counter, and accuracy_rate is within [0, 100].
C28_CorrectWithinTotal ==
    \A i \in DOMAIN stats :
        /\ stats[i].correct_predictions <= stats[i].total_predictions
        /\ stats[i].high_confidence_correct <= stats[i].high_confidence_predictions
        /\ stats[i].medium_confidence_correct <= stats[i].medium_confidence_predictions
        /\ stats[i].low_confidence_correct <= stats[i].low_confidence_predictions
        /\ stats[i].accuracy_rate[1] >= 0
        /\ stats[i].accuracy_rate[1] <= 100 * stats[i].accuracy_rate[2]

\* C29 (as claimed): the model_agreement reported for a class never exceeds
\* the number of loaded models, each model being counted at most once for
\* a class.
C29_AgreementWithinRoster ==
    ensemble.called =>
        \A i \in DOMAIN ensemble.final_predictions :
            ensemble.final_predictions[i].model_agreement <= nModels

\* C30 (as claimed): an ensemble entry whose class label is itself one of
\* the food keywords is kept by extract_food_predictions.
C30_KeywordLabelsKept ==
    (detection.called /\ all_predictions # <<>>) =>
        \A i \in DOMAIN ensemble.final_predictions :
            ensemble.final_predictions[i].class_name \in food_keywords =>
                \E k \in DOMAIN detection.food_predictions :
                    detection.food_predictions[k].class_name =
                        Title(ReplaceUnderscore(ensemble.final_predictions[i].class_name))

=============================================================================
